---- MODULE Spec2Model ----
(***************************************************************************)
(* Model of the text segmentation, page estimation and rendering code of   *)
(* the handwriting application.                                            *)
(*                                                                         *)
(* A string is a sequence of one-character strings.  Four character        *)
(* classes matter to the code and each is represented by one character:    *)
(*   CH  a character matched by chinese_pattern (U+4E00..U+9FA5)           *)
(*   PU  the full stop U+3002, which is in punctuation_pattern and in the  *)
(*       punctuation_marks of _find_split_point                            *)
(*   EN  an ASCII letter                                                   *)
(*   SP  a space, NL a line feed                                           *)
(***************************************************************************)
EXTENDS Integers, Sequences, FiniteSets, TLC

CH == "H"
PU == "P"
EN == "a"
SP == " "
NL == "\n"

\* ------------------------------------------------------------------ bounds
MaxTextLen == 4
MaxRenders == 2
MaxHandrightPages == 2
MaxUpdates == 1
MaxCountLen == 3
MaxPixels == 3
MaxAdds == 2
MaxRequests == 2
MaxChunks == 2

\* ------------------------------------------------- Python helper semantics
Min2(a, b) == IF a <= b THEN a ELSE b
Max2(a, b) == IF a >= b THEN a ELSE b

\* s[i:j] for non-negative i, j (indices clamp to the length)
Slice(s, i, j) == SubSeq(s, Min2(i, Len(s)) + 1, Min2(j, Len(s)))

\* s[i:]
SliceFrom(s, i) == Slice(s, i, Len(s))

\* int(a / b) for b > 0: float division, then truncation toward zero
TruncDiv(a, b) == IF a >= 0 THEN a \div b ELSE -((-a) \div b)

\* a // b for b # 0: floor division
FloorDiv(a, b) == IF b > 0 THEN a \div b ELSE (-a) \div (-b)

Rep(c, n) == [i \in 1..n |-> c]

\* Body(v) with v evaluated once (a local variable assigned once and then read)
Let(v, Body(_)) == CHOOSE y \in {Body(x) : x \in {v}} : TRUE

\* the concatenation of f[lo], ..., f[hi]
RECURSIVE ConcatRange(_, _, _)
ConcatRange(f, lo, hi) ==
    IF lo > hi THEN <<>>
    ELSE IF lo = hi THEN f[lo]
    ELSE Let((lo + hi) \div 2,
             LAMBDA mid : ConcatRange(f, lo, mid) \o ConcatRange(f, mid + 1, hi))

\* "".join(ss)
Concat(ss) == ConcatRange(ss, 1, Len(ss))

\* the k-th smallest element of a set of integers
Kth(S, k) == CHOOSE i \in S : Cardinality({j \in S : j <= i}) = k

TAB == "\t"
CR  == "\r"

Whitespace == {SP, NL, TAB, CR}

RECURSIVE LStrip(_)
LStrip(s) ==
    IF s # <<>> /\ Head(s) \in Whitespace THEN Let(Tail(s), LAMBDA t : LStrip(t)) ELSE s

RECURSIVE RStrip(_)
RStrip(s) ==
    IF s # <<>> /\ s[Len(s)] \in Whitespace
    THEN Let(SubSeq(s, 1, Len(s) - 1), LAMBDA t : RStrip(t))
    ELSE s

\* str.strip()
Strip(s) == Let(LStrip(s), LAMBDA t : RStrip(t))

\* str.split(sep): the pieces between the occurrences of sep, empty ones kept
SplitOn(s, sep) ==
    LET seps == {i \in 1..Len(s) : s[i] = sep}
        n == Cardinality(seps)
        pos(k) == IF k = 0 THEN 0 ELSE IF k = n + 1 THEN Len(s) + 1 ELSE Kth(seps, k)
    IN  [k \in 1..(n + 1) |-> SubSeq(s, pos(k - 1) + 1, pos(k) - 1)]

\* str.split(): the maximal runs of non-whitespace characters
SplitWs(s) ==
    LET starts == {i \in 1..Len(s) :
                      s[i] \notin Whitespace /\ (i = 1 \/ s[i - 1] \in Whitespace)}
        ends == {i \in 1..Len(s) :
                    s[i] \notin Whitespace /\ (i = Len(s) \/ s[i + 1] \in Whitespace)}
    IN  [k \in 1..Cardinality(starts) |-> SubSeq(s, Kth(starts, k), Kth(ends, k))]

\* ------------------------------------------------------ TextProcessor state
\* the fields set by TextProcessor.__init__, as the sets of characters matched
NewTextProcessor ==
    [chinese_pattern     |-> {CH},
     punctuation_pattern |-> {PU},
     en_punctuation      |-> {".", "?", "!", ",", ";", ":", "\"", "'", "(", ")", "[", "]",
                             "{", "}", "\\", "<", ">"}]

\* max_paragraph_length default of split_text_to_paragraphs
max_paragraph_length == 200

\* the window _find_split_point searches backwards from max_length
split_window == 50

punctuation_marks == {".", "!", "?", PU, ";", ","}

\* _find_split_point(text, max_length)
FindSplitPoint(t, max_length) ==
    IF Len(t) <= max_length THEN Len(t)
    ELSE LET cands == {i \in (max_length - split_window + 1)..max_length :
                          i > 0 /\ t[i] \in punctuation_marks}
         IN  IF cands # {} THEN CHOOSE i \in cands : \A j \in cands : j <= i
             ELSE max_length

\* ParagraphStep with the test "if current_paragraph" of the blank-line branch
\* left out: every blank line closes a paragraph, an empty one included
ParagraphStep_everyBlankCloses(st, line, maxlen) ==
    IF line = <<>>
    THEN [paragraphs |-> Append(st.paragraphs, st.current_paragraph),
          current_paragraph |-> <<>>]
    ELSE [paragraphs |-> st.paragraphs,
          current_paragraph |-> IF st.current_paragraph # <<>>
                                THEN st.current_paragraph \o <<SP>> \o line
                                ELSE line]

\* one iteration of the loop of split_text_to_paragraphs over a stripped line;
\* st = [paragraphs, current_paragraph]
ParagraphStep(st, line, maxlen) ==
    LET cp == st.current_paragraph
        ps == st.paragraphs
    IN  IF line = <<>>
        THEN IF cp # <<>>
             THEN [paragraphs |-> Append(ps, cp), current_paragraph |-> <<>>]
             ELSE st
        ELSE IF cp # <<>> /\ Len(cp) + Len(line) + 1 > maxlen
        THEN Let(FindSplitPoint(cp \o <<SP>> \o line, maxlen), LAMBDA split_point :
                 IF split_point > Len(cp)
                 THEN LET ncp == Slice(line, 0, split_point - Len(cp) - 1)
                          rest == split_point - Len(ncp) - 1
                      IN  [paragraphs |->
                              IF rest < Len(line)
                              THEN Append(Append(ps, cp), SliceFrom(line, rest))
                              ELSE Append(ps, cp),
                           current_paragraph |-> ncp]
                 ELSE [paragraphs |-> Append(ps, Slice(cp, 0, split_point)),
                       current_paragraph |->
                           Strip(SliceFrom(cp, split_point)) \o <<SP>> \o line])
        ELSE [paragraphs |-> ps,
              current_paragraph |-> IF cp # <<>> THEN cp \o <<SP>> \o line ELSE line]

RECURSIVE ParagraphLoop(_, _, _, _)
ParagraphLoop(lines, i, st, maxlen) ==
    IF i > Len(lines) THEN st
    ELSE Let(ParagraphStep(st, Strip(lines[i]), maxlen),
             LAMBDA st2 : ParagraphLoop(lines, i + 1, st2, maxlen))

\* split_text_to_paragraphs(text, max_paragraph_length)
SplitTextToParagraphs(t, maxlen) ==
    IF t = <<>> THEN <<>>
    ELSE Let(ParagraphLoop(SplitOn(t, NL), 1,
                           [paragraphs |-> <<>>, current_paragraph |-> <<>>], maxlen),
             LAMBDA st : IF st.current_paragraph # <<>>
                         THEN Append(st.paragraphs, st.current_paragraph)
                         ELSE st.paragraphs)

\* ------------------------------------------------------------ state
VARIABLES
    text,           \* the input text of the session
    jiebaWordLen,   \* the word length jieba's dictionary yields for Chinese runs
    config,         \* the configuration dict the caller passes to process_for_handwriting
    processor,      \* the fields of the TextProcessor instance
    op,             \* the operation that returned last
    args,           \* the arguments of that call
    paragraphs,     \* result of split_text_to_paragraphs
    all_lines,      \* line list returned by add_line_breaks_for_handwriting
    total_lines,    \* its second component
    page_count,     \* result of estimate_page_count
    raised,         \* the exception the call raised, "none" when it returned
    counts,         \* what the last count_characters call was given and returned
    generator,      \* the fields of the PillowHandwritingGenerator instance
    rng,            \* the state of the generator of Python's random module
    renders,        \* the render calls made so far, with what each returned
    converted,      \* the outcome of the last convert_text_to_handwriting call
    effects,        \* the running (or last) apply_effects call of the EffectProcessor
    fonts,          \* the font names ImageFont.truetype resolves on this machine
    updates,        \* the number of update_config calls made on the generator
    canvas,         \* the running (or last) call of a single stage on an image of pixels
    manager,        \* the ConfigManager instance with the files and the environment it uses
    client,         \* the AIClient instance and its running (or last) generate_content call
    prompts,        \* the PromptTemplates instance and what its last call returned
    gui             \* the HandwritingApp window, its stream threads and the callbacks queued for its main loop

textVars == <<text, jiebaWordLen, config, processor, op, args, paragraphs, all_lines,
              total_lines, page_count, raised, counts>>

renderVars == <<generator, rng, renders, converted, effects, fonts, updates>>

\* the state of the modules the text and render operations do not touch
moduleVars == <<canvas, manager, client, prompts, gui>>

vars == <<textVars, renderVars, moduleVars>>

\* everything but the state of one module
exceptCanvas == <<textVars, renderVars, manager, client, prompts, gui>>
exceptManager == <<textVars, renderVars, canvas, client, prompts, gui>>
exceptClient == <<textVars, renderVars, canvas, manager, prompts, gui>>
exceptPrompts == <<textVars, renderVars, canvas, manager, client, gui>>
exceptGui == <<textVars, renderVars, canvas, manager, client, prompts>>

\* ------------------------------------------------- split_paragraph_to_lines
\* _contains_chinese(text)
ContainsChinese(s) == \E i \in 1..Len(s) : s[i] \in processor.chinese_pattern

\* last index of the run of characters of class cls that starts at i
RunEnd(s, i, cls) ==
    LET stops == {j \in i..Len(s) : j = Len(s) \/ s[j + 1] \notin cls}
    IN  CHOOSE j \in stops : \A k \in stops : j <= k

\* list(jieba.cut(paragraph)): a run of Chinese characters is cut into the
\* dictionary's words (wl characters each), a run of ASCII letters is one
\* token, every other character (punctuation, whitespace) is a token by itself
RECURSIVE JiebaCut(_, _, _)
JiebaCut(s, i, wl) ==
    IF i > Len(s) THEN <<>>
    ELSE IF s[i] = CH
         THEN Let(Min2(RunEnd(s, i, {CH}), i + wl - 1),
                  LAMBDA j : <<SubSeq(s, i, j)>> \o JiebaCut(s, j + 1, wl))
    ELSE IF s[i] = EN
         THEN Let(RunEnd(s, i, {EN}),
                  LAMBDA j : <<SubSeq(s, i, j)>> \o JiebaCut(s, j + 1, wl))
    ELSE Let(i + 1, LAMBDA j : <<<<s[i]>>>> \o JiebaCut(s, j, wl))

\* max_chars_per_line = int(available_width / (font_size * 0.5)), font_size > 0
MaxCharsPerLine(font_size, page_width, margin) ==
    TruncDiv(2 * (page_width - 2 * margin), font_size)

\* CjkStep with the overflow test off by one (> max_chars + 1)
CjkStep_offByOne(st, word, max_chars) ==
    IF Len(st.current_line \o word) > max_chars + 1
    THEN LET move == /\ word # <<>>
                     /\ word[1] \in processor.punctuation_pattern
                     /\ st.current_line # <<>>
         IN  [lines |-> Append(st.lines, IF move THEN Append(st.current_line, word[1])
                                                 ELSE st.current_line),
              current_line |-> IF move THEN Tail(word) ELSE word]
    ELSE [lines |-> st.lines, current_line |-> st.current_line \o word]

\* body of the loop over jieba's words; st = [lines, current_line]
CjkStep(st, word, max_chars) ==
    IF Len(st.current_line \o word) > max_chars
    THEN LET move == /\ word # <<>>
                     /\ word[1] \in processor.punctuation_pattern
                     /\ st.current_line # <<>>
         IN  [lines |-> Append(st.lines, IF move THEN Append(st.current_line, word[1])
                                                 ELSE st.current_line),
              current_line |-> IF move THEN Tail(word) ELSE word]
    ELSE [lines |-> st.lines, current_line |-> st.current_line \o word]

\* body of the loop over the whitespace-separated words
WordStep(st, word, max_chars) ==
    IF Len(st.current_line \o <<SP>> \o word) > max_chars /\ st.current_line # <<>>
    THEN [lines |-> Append(st.lines, st.current_line), current_line |-> word]
    ELSE [lines |-> st.lines,
          current_line |-> IF st.current_line # <<>>
                           THEN st.current_line \o <<SP>> \o word
                           ELSE word]

RECURSIVE WordLoop(_, _, _, _, _)
WordLoop(words, i, st, max_chars, cjk) ==
    IF i > Len(words) THEN st
    ELSE Let(IF cjk THEN CjkStep(st, words[i], max_chars)
                    ELSE WordStep(st, words[i], max_chars),
             LAMBDA st2 : WordLoop(words, i + 1, st2, max_chars, cjk))

\* the words split_paragraph_to_lines iterates over
WordsOf(paragraph, wl) ==
    IF ContainsChinese(paragraph) THEN JiebaCut(paragraph, 1, wl)
    ELSE SplitWs(paragraph)

\* split_paragraph_to_lines(paragraph, font_size, page_width, margin);
\* font_size = 0 makes char_width_estimate 0.0 and the division raise
SplitParagraphToLines(paragraph, font_size, page_width, margin, wl) ==
    IF paragraph = <<>> THEN [raised |-> "none", lines |-> <<>>]
    ELSE IF font_size = 0 THEN [raised |-> "ZeroDivisionError", lines |-> <<>>]
    ELSE Let(WordLoop(WordsOf(paragraph, wl), 1,
                      [lines |-> <<>>, current_line |-> <<>>],
                      MaxCharsPerLine(font_size, page_width, margin),
                      ContainsChinese(paragraph)),
             LAMBDA st : [raised |-> "none",
                          lines  |-> IF st.current_line # <<>>
                                     THEN Append(st.lines, st.current_line)
                                     ELSE st.lines])

\* ------------------------------------------ add_line_breaks_for_handwriting
\* the loop over the paragraphs: each paragraph's lines, then one blank line
RECURSIVE ExtendLines(_, _, _, _, _, _, _)
ExtendLines(ps, i, acc, font_size, page_width, margin, wl) ==
    IF i > Len(ps) THEN [raised |-> "none", lines |-> acc]
    ELSE Let(SplitParagraphToLines(ps[i], font_size, page_width, margin, wl),
             LAMBDA r :
                 IF r.raised # "none" THEN r
                 ELSE Let((acc \o r.lines) \o << <<>> >>,
                          LAMBDA acc2 : ExtendLines(ps, i + 1, acc2, font_size,
                                                    page_width, margin, wl)))

\* the removal of the last blank line
PopTrailingBlank(ls) ==
    IF ls # <<>> /\ ls[Len(ls)] = <<>> THEN SubSeq(ls, 1, Len(ls) - 1) ELSE ls

\* add_line_breaks_for_handwriting(text, font_size, page_width, margin, line_spacing)
AddLineBreaks(t, font_size, page_width, margin, line_spacing, wl) ==
    Let(SplitTextToParagraphs(t, max_paragraph_length), LAMBDA ps :
        Let(ExtendLines(ps, 1, <<>>, font_size, page_width, margin, wl), LAMBDA r :
            IF r.raised # "none" THEN r
            ELSE [raised |-> "none", lines |-> PopTrailingBlank(r.lines)]))

\* ------------------------------------------------------ estimate_page_count
\* max_lines_per_page = int(available_height / line_height), line_height > 0
MaxLinesPerPage(font_size, page_height, margin, line_spacing) ==
    TruncDiv(page_height - 2 * margin, font_size + line_spacing)

\* PageCountOf without the "- 1": one page too many when the lines fill the
\* pages exactly
PageCountOf_noMinusOne(total, max_lines) == FloorDiv(total + max_lines, max_lines)

\* page_count = (total_lines + max_lines_per_page - 1) // max_lines_per_page
PageCountOf(total, max_lines) == FloorDiv(total + max_lines - 1, max_lines)

\* estimate_page_count(text, font_size, page_width, page_height, margin, line_spacing)
EstimatePageCount(t, font_size, page_width, page_height, margin, line_spacing, wl) ==
    IF font_size + line_spacing = 0
    THEN [raised |-> "ZeroDivisionError", page_count |-> 0]
    ELSE LET max_lines == MaxLinesPerPage(font_size, page_height, margin, line_spacing)
         IN  Let(AddLineBreaks(t, font_size, page_width, margin, line_spacing, wl),
                 LAMBDA r :
                     IF r.raised # "none" THEN [raised |-> r.raised, page_count |-> 0]
                     ELSE IF max_lines = 0
                     THEN [raised |-> "ZeroDivisionError", page_count |-> 0]
                     ELSE [raised |-> "none",
                           page_count |-> Max2(1, PageCountOf(Len(r.lines), max_lines))])

\* --------------------------------------------------- process_for_handwriting
\* clean_text(text): every character of the model's alphabet is printable or
\* one of \t \n \r; a tab becomes four spaces, \r\n and \r become \n
CleanText(t) ==
    LET piece(i) ==
            IF t[i] = TAB THEN <<SP, SP, SP, SP>>
            ELSE IF t[i] = CR THEN <<NL>>
            ELSE IF t[i] = NL /\ i > 1 /\ t[i - 1] = CR THEN <<>>
            ELSE <<t[i]>>
    IN  ConcatRange([i \in 1..Len(t) |-> piece(i)], 1, Len(t))

\* the page dimensions in pixels, int(mm * 0.0393701 * 300)
PageDims(page_size) ==
    CASE page_size = "A5 portrait"  -> [page_width |-> 1748, page_height |-> 2480]
      [] page_size = "A4 landscape" -> [page_width |-> 3507, page_height |-> 2480]
      [] page_size = "A4 portrait"  -> [page_width |-> 2480, page_height |-> 3507]
      [] OTHER                      -> [page_width |-> 2480, page_height |-> 1748]

\* process_for_handwriting(text, config): the keys lines, total_lines,
\* page_count and page_size of the result
ProcessForHandwriting(t, cfg, wl) ==
    LET dims == PageDims(cfg.page_size)
    IN  Let(CleanText(t), LAMBDA cleaned :
        Let(AddLineBreaks(cleaned, cfg.font_size, dims.page_width, cfg.margin,
                          cfg.line_spacing, wl), LAMBDA ls :
            IF ls.raised # "none"
            THEN [raised |-> ls.raised, lines |-> <<>>, page_count |-> 0,
                  page_size |-> dims]
            ELSE Let(EstimatePageCount(cleaned, cfg.font_size, dims.page_width,
                                       dims.page_height, cfg.margin, cfg.line_spacing, wl),
                     LAMBDA pc : [raised |-> pc.raised, lines |-> ls.lines,
                                  page_count |-> pc.page_count, page_size |-> dims])))

\* ------------------------------------------- PillowHandwritingGenerator
\* the page of the generator in pixels
a5_width == 1748
a5_height == 2480

\* font_names of _get_font, in its order
font_names ==
    <<"Ma Shan Zheng", "ZCOOL QingKe HuangYou", "ZCOOL XiaoWei", "SimHei",
      "WenQuanYi Micro Hei", "Heiti TC">>

\* ImageFont.load_default()
DefaultFont == "default"

\* _get_font(size) where ImageFont.truetype resolves the names in installed
\* and raises OSError for any other
GetFont(installed) ==
    LET hits == {i \in 1..Len(font_names) : font_names[i] \in installed}
    IN  IF hits = {} THEN DefaultFont
        ELSE font_names[CHOOSE i \in hits : \A j \in hits : i <= j]

\* font.getsize(s): the font is an external resource; a fixed-pitch font whose
\* glyphs are font_size wide and high stands for it
FontWidth(s, font_size) == Len(s) * font_size
FontHeight(font_size) == font_size

\* the character loop of generate_handwriting over one non-empty paragraph;
\* st = [lines, current_line]
RECURSIVE CharLoop(_, _, _, _, _)
CharLoop(paragraph, i, st, font_size, text_area_width) ==
    IF i > Len(paragraph) THEN st
    ELSE LET test_line == Append(st.current_line, paragraph[i])
         IN  Let(IF FontWidth(test_line, font_size) > text_area_width
                 THEN [lines |-> Append(st.lines, st.current_line),
                       current_line |-> <<paragraph[i]>>]
                 ELSE [lines |-> st.lines, current_line |-> test_line],
                 LAMBDA st2 : CharLoop(paragraph, i + 1, st2, font_size, text_area_width))

\* the lines generate_handwriting draws for one piece of text.split('\n')
ParagraphLines(paragraph, font_size, text_area_width) ==
    IF paragraph = <<>> THEN << <<>> >>
    ELSE Let(CharLoop(paragraph, 1, [lines |-> <<>>, current_line |-> <<>>],
                      font_size, text_area_width),
             LAMBDA st : IF st.current_line # <<>> THEN Append(st.lines, st.current_line)
                         ELSE st.lines)

\* the lines generate_handwriting draws
RenderLines(t, font_size, margin) ==
    LET ps == SplitOn(t, NL)
    IN  Concat([k \in 1..Len(ps) |->
                   ParagraphLines(ps[k], font_size, a5_width - 2 * margin)])

\* Python's random module: one process-wide generator, seeded from system
\* entropy when the module is imported, each draw advancing its state.  A
\* full-period congruential generator stands for the Mersenne Twister.
RngModulus == 16
RngNext(r) == (5 * r + 3) % RngModulus

\* the states system entropy can seed the generator with
EntropySeeds == {0, 7}

\* random.randint(lo, hi) drawn in state r (the state after the draw is RngNext(r))
RandInt(r, lo, hi) == lo + (RngNext(r) % (hi - lo + 1))

\* random.uniform(-0.5, 0.5) drawn in state r, in sixteenths of a degree
RandAngle(r) == RngNext(r) - 8

\* the drawing loop of generate_handwriting; each drawn line is recorded with
\* its position (offset_y, and offset_y before the random term, times the
\* denominator of line_spacing), whether _draw_rotated_text drew it, and its angle
RECURSIVE DrawLoop(_, _, _, _, _, _)
DrawLoop(lines, i, r, draws, g, start_y) ==
    IF i > Len(lines) THEN [draws |-> draws, rng |-> r]
    ELSE LET line_height == FontHeight(g.font_size)
             offset_x == g.margin + RandInt(r, -2, 2)
             r1 == RngNext(r)
             nominal_y == start_y * g.line_spacing.den
                              + (i - 1) * line_height * g.line_spacing.num
             offset_y == nominal_y + RandInt(r1, -1, 1) * g.line_spacing.den
             r2 == RngNext(r1)
             natural == g.effect_style = "natural"
         IN  Let([rng |-> IF natural THEN RngNext(r2) ELSE r2,
                  draws |-> Append(draws, [line |-> lines[i], x |-> offset_x,
                                           y |-> offset_y, nominal_y |-> nominal_y,
                                           rotated |-> natural,
                                           angle |-> IF natural THEN RandAngle(r2) ELSE 0])],
                 LAMBDA st : DrawLoop(lines, i + 1, st.rng, st.draws, g, start_y))

\* generate_handwriting(text, **kwargs) with no font_size, line_spacing or
\* margin among the keyword arguments (any other keyword, a seed included, is
\* not read): the image returned, as the list of its drawn lines, and the
\* state of the random generator afterwards
GenerateHandwriting(t, g, r) ==
    Let(RenderLines(t, g.font_size, g.margin), LAMBDA lines :
        LET line_height == FontHeight(g.font_size)
            text_area_height == a5_height - 2 * g.margin
            actual_text_height ==
                TruncDiv(Len(lines) * line_height * g.line_spacing.num, g.line_spacing.den)
        IN  Let(g.margin + FloorDiv(text_area_height - actual_text_height, 2),
                LAMBDA start_y : DrawLoop(lines, 1, r, <<>>, g, start_y)))

\* the pixels of an image: an empty line draws nothing
Pixels(draws) == SelectSeq(draws, LAMBDA d : d.line # <<>>)


\* ------------------------------------------------------------------ inputs
Alphabet == {CH, PU, EN, NL}

ShortTexts == UNION {[1..n -> Alphabet] : n \in 0..MaxTextLen}

\* texts whose lines accumulate beyond max_paragraph_length, and texts with
\* whitespace, tabs and carriage returns
LongTexts ==
    { Rep(EN, 150) \o <<NL>> \o Rep(EN, 100),
      Rep(EN, 60) \o <<NL, CH>> \o Rep(EN, 150),
      (Rep(EN, 100) \o <<PU>> \o Rep(EN, 79)) \o <<NL>> \o Rep(EN, 100),
      (Rep(EN, 150) \o <<NL>> \o Rep(EN, 30)) \o <<PU>> \o Rep(EN, 69),
      <<SP, EN, SP, NL, SP, NL, CH, TAB, CH, CR, NL, CR, EN>> }

Texts == ShortTexts \cup LongTexts

\* a pixel of an image: its colour channels and its alpha (255 in an image
\* without alpha channel)
Pixel(r, g, b, a) == [r |-> r, g |-> g, b |-> b, a |-> a]

\* no stage call is running on a pixel image and none has returned
NoCanvas ==
    [op |-> "none", pc |-> "idle", mode |-> "RGB", input |-> <<>>, intensity |-> 0,
     pixels |-> <<>>, x |-> 0, fills |-> <<>>, result |-> "none", result_mode |-> "RGB"]

\* default_config of ConfigManager, the keys the operations tell apart: the
\* API key, model for the plain settings, and template_history, whose value
\* is a list object: "default" names the list default_config holds
default_config ==
    [api_key |-> "", model |-> "gpt-3.5-turbo", template_history |-> "default"]

\* no config.json
NoFile ==
    [format |-> "absent", api_key |-> "", model |-> "", template_history |-> <<>>,
     writer |-> "user"]

\* a ConfigManager not constructed yet, with no file and no environment
\* variable: lists are the two list objects a history can be (the one of
\* default_config and one of the manager's own), env_file the OPENAI_API_KEY
\* line of .env, environ the variable of the process
NoManager ==
    [pc |-> "new", config |-> default_config,
     lists |-> [default |-> <<>>, own |-> <<>>],
     file |-> NoFile, env_file |-> "", environ |-> "",
     next_id |-> 1, last |-> "none", only_adds |-> FALSE, held_key |-> ""]

\* the fields AIClient.__init__ sets and the locals of a _retry_with_backoff
\* call: outcomes are what the calls of func did so far, sleeps the delays of
\* the time.sleep calls made
NewAIClient ==
    [max_retries |-> 3, retry_delay |-> 2, pc |-> "idle", attempt |-> 0,
     outcomes |-> <<>>, sleeps |-> <<>>, last_error |-> "None", result |-> "None",
     error |-> "None", content |-> "None"]

\* the five predefined templates of PromptTemplates.__init__, under English
\* names, and its three categories
predefined_templates == {"test_notes", "work_report", "meeting_minutes", "reading_notes", "diary"}

\* the state after PromptTemplates(): every predefined template with its
\* description and text; last is the call made last and what it returned
NewPromptTemplates ==
    [templates  |-> [n \in predefined_templates |-> [description |-> "d0", template |-> "t0"]],
     categories |-> [study    |-> <<"test_notes", "reading_notes">>,
                     work     |-> <<"work_report", "meeting_minutes">>,
                     personal |-> <<"diary">>],
     last       |-> [op |-> "none", name |-> "none", returned |-> TRUE]]

\* a stream thread: where run_stream is and how many chunks it has passed on
NoThread == [pc |-> "none", chunks |-> 0]

\* the HandwritingApp after __init__: no request yet; threads are the
\* run_stream threads by request, queue the callbacks handed to root.after,
\* request the number of the request sent last, stopped the requests
\* stop_ai_generation was invoked for
NewApp ==
    [stop_generation |-> FALSE, send_button |-> "normal", stop_button |-> "disabled",
     ai_response |-> <<>>, threads |-> [r \in 1..MaxRequests |-> NoThread],
     queue |-> <<>>, request |-> 0, stopped |-> {}]

\* the dict count_characters returns for no text
ZeroCounts == [total |-> 0, chinese |-> 0, english |-> 0, digits |-> 0, punctuation |-> 0]

NoCounts == [include_punctuation |-> TRUE, returned |-> ZeroCounts]

NoArgs == [font_size |-> 0, page_width |-> 0, page_height |-> 0, margin |-> 0,
           line_spacing |-> 0]

StyleArgs(fs, pw, ph, m, ls) ==
    [font_size |-> fs, page_width |-> pw, page_height |-> ph, margin |-> m,
     line_spacing |-> ls]

\* arguments of add_line_breaks_for_handwriting and split_paragraph_to_lines:
\* 0 to 3 characters per line on a page wider than its margins, and font size 0
LineArgs ==
    {StyleArgs(16, pw, 0, 30, 5) : pw \in {68, 76, 84}}
        \cup {StyleArgs(32, 68, 0, 30, 5), StyleArgs(12, 75, 0, 30, 5),
              StyleArgs(0, 84, 0, 30, 5)}

\* arguments of estimate_page_count: -2 to 2 lines per page
EstimateArgs ==
    {StyleArgs(16, 68, ph, 30, 5) : ph \in {10, 70, 81, 102}}
        \cup {StyleArgs(16, 84, 102, 30, 5), StyleArgs(0, 84, 102, 30, 5),
              StyleArgs(0, 84, 102, 30, 0)}

Configs ==
    {[font_size |-> 16, page_size |-> "A5 landscape", margin |-> 30, line_spacing |-> 5],
     [font_size |-> 1600, page_size |-> "A4 portrait", margin |-> 30, line_spacing |-> 5]}

JiebaWordLens == {1, 2}

\* ------------------------------------------------------------------- Init
\* the fields HandwritingGenerator.__init__ takes from its default configuration
\* an image: what was drawn on it and the effect stages applied to it since
BlankImage == [pixels |-> "blank", ops |-> <<>>]
TextImage == [pixels |-> "text", ops |-> <<>>]

\* the None apply_effects returns when a stage raised
NoImage == [pixels |-> "None", ops |-> <<>>]

\* no apply_effects call is running and none has returned
NoEffects ==
    [pc |-> "idle", style |-> "none", image |-> BlankImage, processed_image |-> BlankImage,
     stages |-> <<>>, result |-> NoImage]

\* the keys of the config dict the generator keeps but does not copy into
\* fields, with the values of ConfigManager.default_config
DefaultStyleKeys ==
    [font_family |-> "Ma Shan Zheng", random_offset_x |-> 2, random_offset_y |-> 1]

DefaultGenerator ==
    [font_size |-> 12, line_spacing |-> [num |-> 3, den |-> 2], margin |-> 10,
     effect_style |-> "limited", config |-> DefaultStyleKeys]

\* HandwritingConfig(): the page and layout fields of the default style
NewHandwritingConfig ==
    [page_width |-> 2480, page_height |-> 1748, font_size |-> 120, left_margin |-> 100,
     top_margin |-> 120, right_margin |-> 100, bottom_margin |-> 120,
     line_spacing |-> 140]

\* update_from_dict(config_dict): every key that is an attribute is set to
\* the value given
UpdateFromDict(c, config_dict) ==
    [k \in DOMAIN c |-> IF k \in DOMAIN config_dict THEN config_dict[k] ELSE c[k]]

NoConversion ==
    [called |-> FALSE, pages |-> 0, saved |-> 0, returned |-> FALSE,
     config |-> NewHandwritingConfig, raised |-> FALSE]

Init ==
    /\ text \in Texts
    /\ jiebaWordLen \in JiebaWordLens
    /\ config \in Configs
    /\ generator = DefaultGenerator
    /\ rng = 0
    /\ renders = <<>>
    /\ converted = NoConversion
    /\ effects = NoEffects
    /\ fonts = {}
    /\ updates = 0
    /\ processor = NewTextProcessor
    /\ op = "none"
    /\ args = NoArgs
    /\ paragraphs = <<>>
    /\ all_lines = <<>>
    /\ total_lines = 0
    /\ page_count = 0
    /\ raised = "none"
    /\ counts = NoCounts
    /\ canvas = NoCanvas
    /\ manager = NoManager
    /\ client = NewAIClient
    /\ prompts = NewPromptTemplates
    /\ gui = NewApp

\* ---------------------------------------------------------------- actions
\* a call of split_text_to_paragraphs(text)
CallSplitTextToParagraphs ==
    /\ op = "none"
    /\ op' = "split_text_to_paragraphs"
    /\ args' = NoArgs
    /\ paragraphs' = SplitTextToParagraphs(text, max_paragraph_length)
    /\ all_lines' = <<>>
    /\ total_lines' = 0
    /\ page_count' = 0
    /\ raised' = "none"
    /\ UNCHANGED <<text, jiebaWordLen, config, processor, counts, renderVars, moduleVars>>

\* a call of split_paragraph_to_lines(paragraph, font_size, page_width, margin)
\* on one of the paragraphs of the text; paragraphs holds the argument
CallSplitParagraphToLines ==
    /\ op = "none"
    /\ \E a \in LineArgs :
           \E paragraph \in {SplitTextToParagraphs(text, max_paragraph_length)[k] :
                                 k \in 1..Len(SplitTextToParagraphs(text, max_paragraph_length))} :
               \E r \in {SplitParagraphToLines(paragraph, a.font_size, a.page_width,
                                               a.margin, jiebaWordLen)} :
                   /\ op' = "split_paragraph_to_lines"
                   /\ args' = a
                   /\ paragraphs' = <<paragraph>>
                   /\ all_lines' = r.lines
                   /\ total_lines' = 0
                   /\ page_count' = 0
                   /\ raised' = r.raised
                   /\ UNCHANGED <<text, jiebaWordLen, config, processor, counts, renderVars, moduleVars>>

\* a call of add_line_breaks_for_handwriting(text, font_size, page_width, margin, line_spacing);
\* paragraphs holds the local variable of that name
CallAddLineBreaks ==
    /\ op = "none"
    /\ \E a \in LineArgs :
           \E r \in {AddLineBreaks(text, a.font_size, a.page_width, a.margin,
                                   a.line_spacing, jiebaWordLen)} :
               /\ op' = "add_line_breaks_for_handwriting"
               /\ args' = a
               /\ paragraphs' = SplitTextToParagraphs(text, max_paragraph_length)
               /\ all_lines' = r.lines
               /\ total_lines' = Len(r.lines)
               /\ page_count' = 0
               /\ raised' = r.raised
               /\ UNCHANGED <<text, jiebaWordLen, config, processor, counts, renderVars, moduleVars>>

\* a call of estimate_page_count(text, font_size, page_width, page_height, margin, line_spacing)
CallEstimatePageCount ==
    /\ op = "none"
    /\ \E a \in EstimateArgs :
           \E r \in {EstimatePageCount(text, a.font_size, a.page_width, a.page_height,
                                       a.margin, a.line_spacing, jiebaWordLen)} :
               /\ op' = "estimate_page_count"
               /\ args' = a
               /\ paragraphs' = <<>>
               /\ all_lines' = <<>>
               /\ total_lines' = 0
               /\ page_count' = r.page_count
               /\ raised' = r.raised
               /\ UNCHANGED <<text, jiebaWordLen, config, processor, counts, renderVars, moduleVars>>

\* CallProcessForHandwriting storing the page size it resolved back into the
\* caller's dict
CallProcessForHandwriting_writesConfig ==
    /\ op = "none"
    /\ \E r \in {ProcessForHandwriting(text, config, jiebaWordLen)} :
           /\ op' = "process_for_handwriting"
           /\ args' = StyleArgs(config.font_size, r.page_size.page_width,
                                r.page_size.page_height, config.margin, config.line_spacing)
           /\ paragraphs' = <<>>
           /\ all_lines' = r.lines
           /\ total_lines' = Len(r.lines)
           /\ page_count' = r.page_count
           /\ raised' = r.raised
           /\ config' = [config EXCEPT !.page_size = "A5 landscape"]
           /\ UNCHANGED <<text, jiebaWordLen, processor, counts, renderVars, moduleVars>>

\* a call of process_for_handwriting(text, config)
CallProcessForHandwriting ==
    /\ op = "none"
    /\ \E r \in {ProcessForHandwriting(text, config, jiebaWordLen)} :
           /\ op' = "process_for_handwriting"
           /\ args' = StyleArgs(config.font_size, r.page_size.page_width,
                                r.page_size.page_height, config.margin, config.line_spacing)
           /\ paragraphs' = <<>>
           /\ all_lines' = r.lines
           /\ total_lines' = Len(r.lines)
           /\ page_count' = r.page_count
           /\ raised' = r.raised
           /\ UNCHANGED <<text, jiebaWordLen, config, processor, counts, renderVars, moduleVars>>

\* the caller has consumed the value returned by the last call; the objects
\* of a call are discarded, nothing is cached between calls
Discard ==
    /\ op # "none"
    /\ op' = "none"
    /\ args' = NoArgs
    /\ paragraphs' = <<>>
    /\ all_lines' = <<>>
    /\ total_lines' = 0
    /\ page_count' = 0
    /\ raised' = "none"
    /\ counts' = NoCounts
    /\ UNCHANGED <<text, jiebaWordLen, config, processor, renderVars, moduleVars>>

Next ==
    \/ CallSplitTextToParagraphs
    \/ CallSplitParagraphToLines
    \/ CallAddLineBreaks
    \/ CallEstimatePageCount
    \/ CallProcessForHandwriting
    \/ Discard

Spec == Init /\ [][Next]_vars

\* ------------------------------------------------------------- rendering
GeneratorConfigs ==
    {DefaultGenerator,
     [font_size |-> 1200, line_spacing |-> [num |-> 1, den |-> 1], margin |-> 30,
      effect_style |-> "limited", config |-> DefaultStyleKeys],
     [font_size |-> 600, line_spacing |-> [num |-> 3, den |-> 2], margin |-> 30,
      effect_style |-> "natural", config |-> DefaultStyleKeys]}

NoSeed == -1
Seeds == {NoSeed, 42}

\* the state after the construction of a generator, for the short texts
InitRender ==
    /\ text \in ShortTexts
    /\ jiebaWordLen \in JiebaWordLens
    /\ config \in {c \in Configs : c.font_size = 16}
    /\ generator \in GeneratorConfigs
    /\ rng \in EntropySeeds
    /\ renders = <<>>
    /\ converted = NoConversion
    /\ effects = NoEffects
    /\ fonts = {}
    /\ updates = 0
    /\ processor = NewTextProcessor
    /\ op = "none"
    /\ args = NoArgs
    /\ paragraphs = <<>>
    /\ all_lines = <<>>
    /\ total_lines = 0
    /\ page_count = 0
    /\ raised = "none"
    /\ counts = NoCounts
    /\ canvas = NoCanvas
    /\ manager = NoManager
    /\ client = NewAIClient
    /\ prompts = NewPromptTemplates
    /\ gui = NewApp

\* a call generator.generate_handwriting(text, seed=seed), or without a seed
CallGenerateHandwriting ==
    /\ Len(renders) < MaxRenders
    /\ \E seed \in Seeds :
        \E r \in {GenerateHandwriting(text, generator, rng)} :
            /\ renders' = Append(renders, [seed |-> seed, images |-> <<r.draws>>,
                                            style |-> generator, font |-> GetFont(fonts)])
            /\ rng' = r.rng
            /\ UNCHANGED <<textVars, moduleVars, fonts, updates, generator, converted, effects>>

\* a call convert_text_to_handwriting(text, output_path): handright's
\* handwrite yields the pages (their number is the library's), the first one
\* is saved
CallConvertTextToHandwriting ==
    \E n \in (IF text = <<>> THEN {0} ELSE 1..MaxHandrightPages) :
        /\ ~converted.called
        /\ converted' = [called |-> TRUE, pages |-> n,
                         saved |-> IF n > 0 THEN 1 ELSE 0, returned |-> n > 0,
                         config |-> NewHandwritingConfig, raised |-> FALSE]
        /\ UNCHANGED <<textVars, moduleVars, fonts, updates, generator, rng, renders, effects>>

NextRender ==
    \/ CallGenerateHandwriting
    \/ CallConvertTextToHandwriting

SpecRender == InitRender /\ [][NextRender]_vars

\* --------------------------------------------------------------- effects
\* effect_levels with the preset "none" enabled at intensity zero
effect_levels_noneEnabled ==
    [none    |-> [enabled |-> TRUE, ink_spread |-> 0, noise |-> 0, blur |-> 0,
                  rotation |-> 0],
     limited |-> [enabled |-> TRUE, ink_spread |-> 10, noise |-> 5, blur |-> 50,
                  rotation |-> 50],
     natural |-> [enabled |-> TRUE, ink_spread |-> 30, noise |-> 10, blur |-> 100,
                  rotation |-> 100],
     strong  |-> [enabled |-> TRUE, ink_spread |-> 50, noise |-> 20, blur |-> 150,
                  rotation |-> 150]]

\* effect_levels of EffectProcessor.__init__; the intensities in hundredths
effect_levels ==
    [none    |-> [enabled |-> FALSE],
     limited |-> [enabled |-> TRUE, ink_spread |-> 10, noise |-> 5, blur |-> 50,
                  rotation |-> 50],
     natural |-> [enabled |-> TRUE, ink_spread |-> 30, noise |-> 10, blur |-> 100,
                  rotation |-> 100],
     strong  |-> [enabled |-> TRUE, ink_spread |-> 50, noise |-> 20, blur |-> 150,
                  rotation |-> 150]]

\* self.effect_levels.get(effect_style, self.effect_levels["limited"])
EffectConfig(effect_style) ==
    IF effect_style \in DOMAIN effect_levels THEN effect_levels[effect_style]
    ELSE effect_levels["limited"]

\* the image with one more stage applied to it
Applied(image, stage, param, rnd) ==
    [image EXCEPT !.ops = Append(@, [stage |-> stage, param |-> param, rnd |-> rnd])]

\* _apply_ink_spread(image, intensity): kernel_size = max(1, int(intensity * 3))
InkSpread(image, intensity) ==
    IF intensity <= 0 THEN image
    ELSE Applied(image, "ink_spread", Max2(1, TruncDiv(intensity * 3, 100)), 0)

\* _apply_noise(image, intensity), one pixel standing for the pixel loop:
\* random.random() < intensity, then random.randint(-30, 30)
NoiseHit(r, intensity) == RngNext(r) * 100 < intensity * RngModulus

Noise(image, intensity, r) ==
    IF intensity <= 0 THEN [image |-> image, rng |-> r]
    ELSE IF NoiseHit(r, intensity)
         THEN [image |-> Applied(image, "noise", intensity, RandInt(RngNext(r), -30, 30)),
               rng |-> RngNext(RngNext(r))]
         ELSE [image |-> Applied(image, "noise", intensity, 0), rng |-> RngNext(r)]

\* _apply_blur(image, intensity): radius = intensity * 0.5
Blur(image, intensity) ==
    IF intensity <= 0 THEN image
    ELSE Applied(image, "blur", TruncDiv(intensity, 2), 0)

\* _apply_paper_texture(image), one pixel standing for the pixel loop:
\* random.randint(240, 255), blended at 0.95
PaperTexture(image, r) ==
    [image |-> Applied(image, "paper_texture", 95, RandInt(r, 240, 255)),
     rng |-> RngNext(r)]

\* _adjust_brightness_contrast(image): brightness 0.95, contrast 1.05
BrightnessContrast(image) == Applied(image, "brightness_contrast", 95, 105)

\* the effect styles a caller passes, one of them not a key of effect_levels
EffectStyles == {"none", "limited", "natural", "strong", "sketch"}

InputImages == {BlankImage, TextImage}

\* the record of one stage call: the image it was given and the image it returned
StageCall(stage, input, output, failed) ==
    [stage |-> stage, input |-> input, output |-> output, failed |-> failed]

\* the stage raised and the except clause of apply_effects returns None
StageRaised(stage) ==
    [effects EXCEPT !.pc = "returned",
                    !.stages = Append(@, StageCall(stage, effects.processed_image,
                                                   NoImage, TRUE)),
                    !.result = NoImage]

\* the stage returned image out, the next statement of apply_effects is pc
StageReturned(stage, out, pc) ==
    [effects EXCEPT !.pc = pc,
                    !.stages = Append(@, StageCall(stage, effects.processed_image,
                                                   out, FALSE)),
                    !.processed_image = out]

\* apply_effects(image, effect_style) up to the first stage: a disabled
\* preset returns the image, otherwise the image is copied
CallApplyEffects ==
    /\ effects.pc = "idle"
    /\ \E effect_style \in EffectStyles : \E image \in InputImages :
           effects' = IF ~EffectConfig(effect_style).enabled
                      THEN [NoEffects EXCEPT !.pc = "returned", !.style = effect_style,
                                             !.image = image, !.processed_image = image,
                                             !.result = image]
                      ELSE [NoEffects EXCEPT !.pc = "ink_spread", !.style = effect_style,
                                             !.image = image, !.processed_image = image]
    /\ UNCHANGED <<textVars, moduleVars, fonts, updates, generator, rng, renders, converted>>

\* line 65: a stage that does anything can raise (Pillow is an external
\* library); nothing in the stage or around the call catches it
ApplyInkSpread ==
    /\ effects.pc = "ink_spread"
    /\ \E raises \in {FALSE, EffectConfig(effects.style).ink_spread > 0} :
           effects' = IF raises THEN StageRaised("ink_spread")
                      ELSE StageReturned("ink_spread",
                                         InkSpread(effects.processed_image,
                                                   EffectConfig(effects.style).ink_spread),
                                         "noise")
    /\ UNCHANGED <<textVars, moduleVars, fonts, updates, generator, rng, renders, converted>>

\* line 66
ApplyNoise ==
    /\ effects.pc = "noise"
    /\ \E raises \in {FALSE, EffectConfig(effects.style).noise > 0} :
       \E r \in {Noise(effects.processed_image, EffectConfig(effects.style).noise, rng)} :
           /\ effects' = IF raises THEN StageRaised("noise")
                         ELSE StageReturned("noise", r.image, "blur")
           /\ rng' = IF raises THEN rng ELSE r.rng
    /\ UNCHANGED <<textVars, moduleVars, fonts, updates, generator, renders, converted>>

\* ApplyBlur going on to brightness/contrast, past the paper texture
ApplyBlur_skipsPaperTexture ==
    /\ effects.pc = "blur"
    /\ \E raises \in {FALSE, EffectConfig(effects.style).blur > 0} :
           effects' = IF raises THEN StageRaised("blur")
                      ELSE StageReturned("blur",
                                         Blur(effects.processed_image,
                                              EffectConfig(effects.style).blur),
                                         "brightness_contrast")
    /\ UNCHANGED <<textVars, moduleVars, fonts, updates, generator, rng, renders, converted>>

\* line 67
ApplyBlur ==
    /\ effects.pc = "blur"
    /\ \E raises \in {FALSE, EffectConfig(effects.style).blur > 0} :
           effects' = IF raises THEN StageRaised("blur")
                      ELSE StageReturned("blur",
                                         Blur(effects.processed_image,
                                              EffectConfig(effects.style).blur),
                                         "paper_texture")
    /\ UNCHANGED <<textVars, moduleVars, fonts, updates, generator, rng, renders, converted>>

\* line 68: the stage catches what it raises and returns the image it was given
ApplyPaperTexture ==
    /\ effects.pc = "paper_texture"
    /\ \E raises \in BOOLEAN :
       \E r \in {PaperTexture(effects.processed_image, rng)} :
           /\ effects' = IF raises
                         THEN [effects EXCEPT
                                  !.pc = "brightness_contrast",
                                  !.stages = Append(@, StageCall("paper_texture",
                                                                 effects.processed_image,
                                                                 effects.processed_image,
                                                                 TRUE))]
                         ELSE StageReturned("paper_texture", r.image, "brightness_contrast")
           /\ rng' = IF raises THEN rng ELSE r.rng
    /\ UNCHANGED <<textVars, moduleVars, fonts, updates, generator, renders, converted>>

\* line 69
AdjustBrightnessContrast ==
    /\ effects.pc = "brightness_contrast"
    /\ \E raises \in BOOLEAN :
           effects' = IF raises THEN StageRaised("brightness_contrast")
                      ELSE StageReturned("brightness_contrast",
                                         BrightnessContrast(effects.processed_image),
                                         "return")
    /\ UNCHANGED <<textVars, moduleVars, fonts, updates, generator, rng, renders, converted>>

\* line 71: return processed_image
ReturnProcessedImage ==
    /\ effects.pc = "return"
    /\ effects' = [effects EXCEPT !.pc = "returned", !.result = effects.processed_image]
    /\ UNCHANGED <<textVars, moduleVars, fonts, updates, generator, rng, renders, converted>>

\* the caller has taken the image; the EffectProcessor keeps nothing of a call
DiscardEffects ==
    /\ effects.pc = "returned"
    /\ effects' = NoEffects
    /\ UNCHANGED <<textVars, moduleVars, fonts, updates, generator, rng, renders, converted>>

\* the state after EffectProcessor()
InitEffects ==
    /\ text = <<>>
    /\ jiebaWordLen = 1
    /\ config \in {c \in Configs : c.font_size = 16}
    /\ generator = DefaultGenerator
    /\ rng \in EntropySeeds
    /\ renders = <<>>
    /\ converted = NoConversion
    /\ effects = NoEffects
    /\ fonts = {}
    /\ updates = 0
    /\ processor = NewTextProcessor
    /\ op = "none"
    /\ args = NoArgs
    /\ paragraphs = <<>>
    /\ all_lines = <<>>
    /\ total_lines = 0
    /\ page_count = 0
    /\ raised = "none"
    /\ counts = NoCounts
    /\ canvas = NoCanvas
    /\ manager = NoManager
    /\ client = NewAIClient
    /\ prompts = NewPromptTemplates
    /\ gui = NewApp

NextEffects ==
    \/ CallApplyEffects
    \/ ApplyInkSpread
    \/ ApplyNoise
    \/ ApplyBlur
    \/ ApplyPaperTexture
    \/ AdjustBrightnessContrast
    \/ ReturnProcessedImage
    \/ DiscardEffects

SpecEffects == InitEffects /\ [][NextEffects]_vars

\* ---------------------------------------------------------------- styles
\* update_config(**kwargs) with one keyword: a key that is a field of the
\* generator is set, and so is a key of its config dict
UpdateConfig(g, key, value) ==
    IF key \in {"font_size", "line_spacing", "margin", "effect_style"}
    THEN [g EXCEPT ![key] = value]
    ELSE IF key \in DOMAIN g.config THEN [g EXCEPT !.config[key] = value]
    ELSE g

\* the keyword arguments callers pass to update_config
UpdateKwargs ==
    <<[key |-> "margin", value |-> -5],
      [key |-> "random_offset_x", value |-> 0],
      [key |-> "effect_style", value |-> "strong"]>>

\* the styles generators are constructed with
StyleConfigs ==
    GeneratorConfigs \cup
    {[font_size |-> 12, line_spacing |-> [num |-> 3, den |-> 2], margin |-> 900,
      effect_style |-> "limited", config |-> DefaultStyleKeys],
     [font_size |-> 12, line_spacing |-> [num |-> 3, den |-> 2], margin |-> 10,
      effect_style |-> "strong",
      config |-> [font_family |-> "KaiTi", random_offset_x |-> 5, random_offset_y |-> 0]],
     [font_size |-> 12, line_spacing |-> [num |-> 3, den |-> 2], margin |-> 10,
      effect_style |-> "none", config |-> DefaultStyleKeys]}

\* the fonts installed on a machine
FontSets == {{}, {"KaiTi"}, {"KaiTi", "SimHei", "Heiti TC"}}

StyleTexts == {<<>>, <<EN>>, <<CH, NL, NL, CH>>}

\* the custom_config dicts callers pass to convert_text_to_handwriting
CustomConfigs == {[left_margin |-> 50], [left_margin |-> -100], [page_width |-> 150]}

\* what the handright library checks of a template is not in this
\* repository: it may refuse a template whose margins are negative or leave
\* no room on the page
LibraryMayRefuse(c) ==
    \/ \E k \in DOMAIN c : c[k] < 0
    \/ c.page_width <= c.left_margin + c.right_margin
    \/ c.page_height <= c.top_margin + c.bottom_margin

\* a call generator.update_config(key=value)
CallUpdateConfig ==
    /\ updates < MaxUpdates
    /\ \E k \in 1..Len(UpdateKwargs) :
           generator' = UpdateConfig(generator, UpdateKwargs[k].key, UpdateKwargs[k].value)
    /\ updates' = updates + 1
    /\ UNCHANGED <<textVars, moduleVars, fonts, rng, renders, converted, effects>>

\* a call convert_text_to_handwriting(text, output_path, custom_config=d):
\* the configuration is updated from d, the template is built from it and
\* handright yields the pages, or raises in Template (outside the try, the
\* exception leaves the function) or in handwrite (False is returned)
CallConvertWithCustomConfig ==
    /\ ~converted.called
    /\ \E d \in CustomConfigs :
       \E c \in {UpdateFromDict(NewHandwritingConfig, d)} :
       \E outcome \in {"pages"} \cup (IF LibraryMayRefuse(c)
                                      THEN {"Template raises", "handwrite raises"}
                                      ELSE {}) :
       \E n \in (IF text = <<>> \/ outcome # "pages" THEN {0} ELSE 1..MaxHandrightPages) :
           converted' = [called |-> TRUE, pages |-> n,
                         saved |-> IF n > 0 THEN 1 ELSE 0, returned |-> n > 0,
                         config |-> c, raised |-> outcome = "Template raises"]
    /\ UNCHANGED <<textVars, moduleVars, fonts, updates, generator, rng, renders, effects>>

\* the state after the construction of a generator with one of the styles,
\* on one of the machines
InitStyle ==
    /\ text \in StyleTexts
    /\ jiebaWordLen = 1
    /\ config \in {c \in Configs : c.font_size = 16}
    /\ generator \in StyleConfigs
    /\ rng \in EntropySeeds
    /\ renders = <<>>
    /\ converted = NoConversion
    /\ effects = NoEffects
    /\ fonts \in FontSets
    /\ updates = 0
    /\ processor = NewTextProcessor
    /\ op = "none"
    /\ args = NoArgs
    /\ paragraphs = <<>>
    /\ all_lines = <<>>
    /\ total_lines = 0
    /\ page_count = 0
    /\ raised = "none"
    /\ counts = NoCounts
    /\ canvas = NoCanvas
    /\ manager = NoManager
    /\ client = NewAIClient
    /\ prompts = NewPromptTemplates
    /\ gui = NewApp

NextStyle ==
    \/ CallUpdateConfig
    \/ CallGenerateHandwriting
    \/ CallConvertWithCustomConfig

SpecStyle == InitStyle /\ [][NextStyle]_vars

\* ---------------------------------------------------------- count_characters
\* a digit (matched by \d) and one of the characters of en_punctuation
DG == "1"
DOT == "."
BSL == "\\"

\* what [a-zA-Z] and \d match
letter_pattern == {EN, "Z"}
digit_pattern == {DG}

\* len(pattern.findall(s)) for a one-character class
FindallLen(pattern, s) == Cardinality({i \in 1..Len(s) : s[i] \in pattern})

\* pattern.sub('', s), and s.replace(p, '') for every p of a set of characters
Without(s, pattern) == SelectSeq(s, LAMBDA c : c \notin pattern)

CountCharacters_keepsEnPunctuation(t, include_punctuation) ==
    IF t = <<>> THEN ZeroCounts
    ELSE Let(IF ~include_punctuation
             THEN Without(t, processor.punctuation_pattern)
             ELSE t,
             LAMBDA counted :
                 [total       |-> Len(counted),
                  chinese     |-> FindallLen(processor.chinese_pattern, counted),
                  english     |-> FindallLen(letter_pattern, counted),
                  digits      |-> FindallLen(digit_pattern, counted),
                  punctuation |-> FindallLen(processor.punctuation_pattern, counted)
                                  + FindallLen(processor.en_punctuation, counted)])

\* count_characters(text, include_punctuation)
CountCharacters(t, include_punctuation) ==
    IF t = <<>> THEN ZeroCounts
    ELSE Let(IF ~include_punctuation
             THEN Without(Without(t, processor.punctuation_pattern),
                          processor.en_punctuation)
             ELSE t,
             LAMBDA counted :
                 [total       |-> Len(counted),
                  chinese     |-> FindallLen(processor.chinese_pattern, counted),
                  english     |-> FindallLen(letter_pattern, counted),
                  digits      |-> FindallLen(digit_pattern, counted),
                  punctuation |-> FindallLen(processor.punctuation_pattern, counted)
                                  + FindallLen(processor.en_punctuation, counted)])

\* the characters of the texts counted: one or two of every class the function
\* tells apart, and a space, which is in none
CountAlphabet == {CH, PU, EN, "Z", DG, DOT, BSL, SP}

CountTexts == UNION {[1..n -> CountAlphabet] : n \in 0..MaxCountLen}

\* a call of count_characters(text, include_punctuation)
CallCountCharacters ==
    /\ op = "none"
    /\ \E include_punctuation \in BOOLEAN :
           counts' = [include_punctuation |-> include_punctuation,
                      returned |-> CountCharacters(text, include_punctuation)]
    /\ op' = "count_characters"
    /\ UNCHANGED <<text, jiebaWordLen, config, processor, args, paragraphs, all_lines,
                   total_lines, page_count, raised, renderVars, moduleVars>>

\* the state after TextProcessor(), with the text the caller holds
InitCount ==
    /\ text \in CountTexts
    /\ jiebaWordLen = 1
    /\ config \in {c \in Configs : c.font_size = 16}
    /\ generator = DefaultGenerator
    /\ rng = 0
    /\ renders = <<>>
    /\ converted = NoConversion
    /\ effects = NoEffects
    /\ fonts = {}
    /\ updates = 0
    /\ processor = NewTextProcessor
    /\ op = "none"
    /\ args = NoArgs
    /\ paragraphs = <<>>
    /\ all_lines = <<>>
    /\ total_lines = 0
    /\ page_count = 0
    /\ raised = "none"
    /\ counts = NoCounts
    /\ canvas = NoCanvas
    /\ manager = NoManager
    /\ client = NewAIClient
    /\ prompts = NewPromptTemplates
    /\ gui = NewApp

NextCount ==
    \/ CallCountCharacters
    \/ Discard

SpecCount == InitCount /\ [][NextCount]_vars

\* ------------------------------------------------- effect stages on pixels
\* images are one row of pixels: width Len(image), height 1
Black == Pixel(0, 0, 0, 255)
Red == Pixel(255, 0, 0, 255)
Grey == Pixel(128, 128, 128, 255)
White == Pixel(255, 255, 255, 255)
Translucent == Pixel(200, 200, 200, 100)

Palette(mode) ==
    IF mode = "RGBA" THEN {Red, Translucent}
    ELSE {Black, Red, Grey, White}

ImageModes == {"RGB", "RGBA"}

PixelImages(mode) == UNION {[1..n -> Palette(mode)] : n \in 1..MaxPixels}

\* image.convert('L') of one pixel (ITU-R 601-2 luma in Pillow's fixed point)
Luminance(p) == (p.r * 19595 + p.g * 38470 + p.b * 7471 + 32768) \div 65536

\* threshold of _apply_ink_spread and create_handwriting_with_pen_pressure
threshold == 128

\* gray.point(lambda x: 255 if x < threshold else 0, '1')
DarkMask(image) == [i \in 1..Len(image) |-> IF Luminance(image[i]) < threshold THEN 255 ELSE 0]

\* mask.filter(ImageFilter.GaussianBlur(radius)): the library's filter, taken
\* as the mean over the radius with the edge pixels repeated; like every blur
\* it leaves a uniform mask as it is
GaussianBlur(mask, radius) ==
    [i \in 1..Len(mask) |->
        LET At(j) == mask[Max2(1, Min2(Len(mask), j))]
            RECURSIVE Sum(_)
            Sum(j) == IF j > i + radius THEN 0 ELSE At(j) + Sum(j + 1)
        IN Sum(i - radius) \div (2 * radius + 1)]

\* one channel of result.paste(ink_layer, (0, 0), ink_layer): black through
\* the alpha 255 - blurred onto the channel value dst
PasteBlack(dst, alpha) ==
    LET tmp == (255 - alpha) * dst + 128
    IN ((tmp \div 256) + tmp) \div 256

\* _apply_ink_spread(image, intensity) where the library calls return
InkSpreadPixels(image, intensity) ==
    LET kernel_size == Max2(1, TruncDiv(intensity * 3, 100))
        blurred == GaussianBlur(DarkMask(image), kernel_size)
        inverted_mask == [i \in 1..Len(image) |-> 255 - blurred[i]]
    IN [i \in 1..Len(image) |->
           Pixel(PasteBlack(image[i].r, inverted_mask[i]),
                 PasteBlack(image[i].g, inverted_mask[i]),
                 PasteBlack(image[i].b, inverted_mask[i]), 255)]

\* the ink_spread values of the presets, and 0
InkIntensities == {0, 10, 30, 50}

\* a call of _apply_ink_spread(image, intensity); the filter call on the
\* mode '1' mask is the library's and may refuse the mode
CallApplyInkSpread ==
    /\ canvas.pc = "idle"
    /\ \E mode \in ImageModes : \E image \in PixelImages(mode) :
       \E intensity \in InkIntensities : \E raises \in {FALSE, intensity > 0} :
           canvas' = [NoCanvas EXCEPT
                         !.op = "ink_spread", !.pc = "returned", !.mode = mode,
                         !.input = image, !.intensity = intensity,
                         !.pixels = IF intensity <= 0 \/ raises THEN image
                                    ELSE InkSpreadPixels(image, intensity),
                         !.result = IF raises THEN "raised"
                                    ELSE IF intensity <= 0 THEN "input" ELSE "image",
                         !.result_mode = IF intensity <= 0 \/ raises THEN mode ELSE "RGB"]
    /\ UNCHANGED exceptCanvas

\* max(0, min(255, v))
Clamp(v) == Max2(0, Min2(255, v))

\* the noise values of the presets: none, 0.1, and 1.0 where every pixel is hit
NoiseIntensities == {0, 10, 100}

\* what random.randint(-30, 30) can return: the two ends
NoiseValues == {-30, 30}

\* _apply_noise(image, intensity) up to the pixel loop
CallApplyNoise ==
    /\ canvas.pc = "idle"
    /\ \E mode \in ImageModes : \E image \in PixelImages(mode) :
       \E intensity \in NoiseIntensities :
           canvas' = IF intensity <= 0
                     THEN [NoCanvas EXCEPT !.op = "noise", !.pc = "returned", !.mode = mode,
                                           !.input = image, !.intensity = intensity,
                                           !.pixels = image, !.result = "input",
                                           !.result_mode = mode]
                     ELSE [NoCanvas EXCEPT !.op = "noise", !.pc = "loop", !.mode = mode,
                                           !.input = image, !.intensity = intensity,
                                           !.pixels = image, !.result_mode = "RGBA"]
    /\ UNCHANGED exceptCanvas

\* one pass of the pixel loop of _apply_noise: random.random() < intensity,
\* then the same noise on the three colour channels, a kept
ApplyNoisePixel_unclamped ==
    /\ canvas.op = "noise" /\ canvas.pc = "loop"
    /\ canvas.x < Len(canvas.pixels)
    /\ \E hit \in {TRUE, canvas.intensity >= 100} : \E noise \in NoiseValues :
           LET p == canvas.pixels[canvas.x + 1]
           IN canvas' = [canvas EXCEPT
                            !.x = @ + 1,
                            !.pixels[canvas.x + 1] =
                                IF hit THEN Pixel(p.r + noise, p.g + noise, p.b + noise, p.a)
                                ELSE p]
    /\ UNCHANGED exceptCanvas

ApplyNoisePixel ==
    /\ canvas.op = "noise" /\ canvas.pc = "loop"
    /\ canvas.x < Len(canvas.pixels)
    /\ \E hit \in {TRUE, canvas.intensity >= 100} : \E noise \in NoiseValues :
           LET p == canvas.pixels[canvas.x + 1]
           IN canvas' = [canvas EXCEPT
                            !.x = @ + 1,
                            !.pixels[canvas.x + 1] =
                                IF hit THEN Pixel(Clamp(p.r + noise), Clamp(p.g + noise),
                                                  Clamp(p.b + noise), p.a)
                                ELSE p]
    /\ UNCHANGED exceptCanvas

\* rgba.convert('RGB'): the colour channels, no alpha channel
ConvertRGB(image) == [i \in 1..Len(image) |-> [image[i] EXCEPT !.a = 255]]

\* return rgba.convert('RGB')
ReturnNoise ==
    /\ canvas.op = "noise" /\ canvas.pc = "loop"
    /\ canvas.x = Len(canvas.pixels)
    /\ canvas' = [canvas EXCEPT !.pc = "returned", !.pixels = ConvertRGB(@),
                                !.result = "image", !.result_mode = "RGB"]
    /\ UNCHANGED exceptCanvas

\* images wide enough for a start, a middle and an end of the line
WideImages ==
    {[i \in 1..6 |-> IF i \in S THEN Black ELSE White] : S \in {{}, {1, 2}, {4}, {6}, {2, 6}}}

\* what random.uniform(0.8, 1.2) can return, in hundredths: the ends and 1.0
JitterValues == {80, 100, 120}

\* twice the width times the pressure of the position x in a line of that width:
\* 0.5 + line_pos * 0.5 at the start, 0.5 + (1.0 - line_pos) * 0.5 at the
\* end, 1.0 between, with line_pos = x / width
PositionPressure(x, width) ==
    IF 5 * x < width THEN width + x
    ELSE IF 5 * x > 4 * width THEN width + (width - x)
    ELSE 2 * width

\* 255 - int((255 - pixel_value) * pressure), pressure the position factor
\* times the jitter
PenIntensity(pixel_value, x, width, jitter) ==
    255 - TruncDiv((255 - pixel_value) * PositionPressure(x, width) * jitter,
                   2 * width * 100)

\* create_handwriting_with_pen_pressure(image) up to the pixel loop
CallPenPressure ==
    /\ canvas.pc = "idle"
    /\ \E mode \in ImageModes : \E image \in PixelImages(mode) \cup WideImages :
           canvas' = [NoCanvas EXCEPT !.op = "pen_pressure", !.pc = "loop", !.mode = mode,
                                      !.input = image,
                                      !.pixels = [i \in 1..Len(image) |-> White]]
    /\ UNCHANGED exceptCanvas

\* one pass of the pixel loop: draw.point((x, y), fill=(intensity,) * 3) for a
\* dark pixel, the ink clipped to the channel range by the library
PenPressurePixel ==
    /\ canvas.op = "pen_pressure" /\ canvas.pc = "loop"
    /\ canvas.x < Len(canvas.input)
    /\ \E pixel_value \in {Luminance(canvas.input[canvas.x + 1])} :
           IF pixel_value < threshold
           THEN \E jitter \in JitterValues :
                \E intensity \in {PenIntensity(pixel_value, canvas.x, Len(canvas.input),
                                               jitter)} :
                    canvas' = [canvas EXCEPT
                                  !.x = @ + 1,
                                  !.fills = Append(@, [x |-> canvas.x,
                                                       intensity |-> intensity]),
                                  !.pixels[canvas.x + 1] =
                                      Pixel(Clamp(intensity), Clamp(intensity),
                                            Clamp(intensity), 255)]
           ELSE canvas' = [canvas EXCEPT !.x = @ + 1]
    /\ UNCHANGED exceptCanvas

\* return result
ReturnPenPressure ==
    /\ canvas.op = "pen_pressure" /\ canvas.pc = "loop"
    /\ canvas.x = Len(canvas.input)
    /\ canvas' = [canvas EXCEPT !.pc = "returned", !.result = "image"]
    /\ UNCHANGED exceptCanvas

\* the caller has taken the image
DiscardCanvas ==
    /\ canvas.pc = "returned"
    /\ canvas' = NoCanvas
    /\ UNCHANGED exceptCanvas

\* the state after EffectProcessor()
InitPixels ==
    /\ text = <<>>
    /\ jiebaWordLen = 1
    /\ config \in {c \in Configs : c.font_size = 16}
    /\ generator = DefaultGenerator
    /\ rng = 0
    /\ renders = <<>>
    /\ converted = NoConversion
    /\ effects = NoEffects
    /\ fonts = {}
    /\ updates = 0
    /\ processor = NewTextProcessor
    /\ op = "none"
    /\ args = NoArgs
    /\ paragraphs = <<>>
    /\ all_lines = <<>>
    /\ total_lines = 0
    /\ page_count = 0
    /\ raised = "none"
    /\ counts = NoCounts
    /\ canvas = NoCanvas
    /\ manager = NoManager
    /\ client = NewAIClient
    /\ prompts = NewPromptTemplates
    /\ gui = NewApp

NextPixels ==
    \/ CallApplyInkSpread
    \/ CallApplyNoise
    \/ ApplyNoisePixel
    \/ ReturnNoise
    \/ CallPenPressure
    \/ PenPressurePixel
    \/ ReturnPenPressure
    \/ DiscardCanvas

SpecPixels == InitPixels /\ [][NextPixels]_vars


\* ------------------------------------------------------------------ claims
Range(f) == {f[i] : i \in DOMAIN f}

\* the characters of s that are not whitespace, in order
NonWs(s) == SelectSeq(s, LAMBDA c : c \notin Whitespace)

Returned(name) == op = name /\ raised = "none"

\* what estimate_page_count returns for the text and the generator's style
\* on the generator's page
GeneratorEstimate ==
    EstimatePageCount(text, generator.font_size, a5_width, a5_height, generator.margin,
                      generator.line_spacing.num \div generator.line_spacing.den,
                      jiebaWordLen)

\* C1: for a non-empty text the render operation yields at least one page
\* image and exactly as many page images as estimate_page_count returns
C1_RenderYieldsEstimatedPages ==
    text # <<>>
        => /\ \A i \in 1..Len(renders) :
                  /\ Len(renders[i].images) >= 1
                  /\ GeneratorEstimate.raised = "none"
                  /\ Len(renders[i].images) = GeneratorEstimate.page_count
           /\ converted.called
                  => /\ converted.saved >= 1
                     /\ GeneratorEstimate.raised = "none"
                     /\ converted.saved = GeneratorEstimate.page_count

\* C2: no characters are dropped by segmentation: the lines returned by
\* add_line_breaks_for_handwriting, concatenated and with whitespace ignored,
\* are exactly the non-whitespace characters of the input in their order
C2_NoCharacterDropped ==
    Returned("add_line_breaks_for_handwriting")
        => NonWs(Concat(all_lines)) = NonWs(text)

\* estimated width font_size * 0.5 * len(line) <= page_width - 2 * margin
FitsWidth(line) == args.font_size * Len(line) <= 2 * (args.page_width - 2 * args.margin)

\* the line is one of the words split_paragraph_to_lines iterated over
IsSingleToken(line) == line \in Range(WordsOf(paragraphs[1], jiebaWordLen))

\* C3 as stated: every line returned by split_paragraph_to_lines fits the
\* usable width by the width estimate, or is a single token
C3_LineFitsOrIsSingleToken ==
    Returned("split_paragraph_to_lines")
        => \A i \in 1..Len(all_lines) :
               FitsWidth(all_lines[i]) \/ IsSingleToken(all_lines[i])

\* the line, without a punctuation character retained at its end
WithoutRetained(line) == SubSeq(line, 1, Len(line) - 1)

EndsWithRetained(line) ==
    /\ ContainsChinese(paragraphs[1])
    /\ Len(line) >= 2
    /\ line[Len(line)] \in processor.punctuation_pattern

\* C3 amended: every line returned by split_paragraph_to_lines fits the usable
\* width or is a single token, except that a line of a Chinese paragraph may
\* carry one punctuation character retained at its end beyond that
C3_LineFitsUpToRetainedPunctuation ==
    Returned("split_paragraph_to_lines")
        => \A i \in 1..Len(all_lines) :
               \/ FitsWidth(all_lines[i])
               \/ IsSingleToken(all_lines[i])
               \/ /\ EndsWithRetained(all_lines[i])
                  /\ \/ FitsWidth(WithoutRetained(all_lines[i]))
                     \/ IsSingleToken(WithoutRetained(all_lines[i]))

\* a wrap of a Chinese paragraph has closed a line of several tokens that is
\* wider than the usable width
C3_Witness ==
    /\ Returned("split_paragraph_to_lines")
    /\ \E i \in 1..Len(all_lines) :
           /\ ~FitsWidth(all_lines[i])
           /\ ~IsSingleToken(all_lines[i])
           /\ EndsWithRetained(all_lines[i])
           /\ i < Len(all_lines)

\* C4: in the Chinese path of split_paragraph_to_lines no line produced by a
\* wrap (any line after the first) starts with a punctuation character
C4_NoWrappedLineStartsWithPunctuation ==
    (Returned("split_paragraph_to_lines") /\ ContainsChinese(paragraphs[1]))
        => \A i \in 2..Len(all_lines) :
               all_lines[i] # <<>> => all_lines[i][1] \notin processor.punctuation_pattern

\* C5: the line list of add_line_breaks_for_handwriting never has two
\* consecutive blank lines and neither begins nor ends with a blank line
C5_SingleBlankSeparators ==
    (Returned("add_line_breaks_for_handwriting") /\ all_lines # <<>>)
        => /\ all_lines[1] # <<>>
           /\ all_lines[Len(all_lines)] # <<>>
           /\ \A i \in 1..(Len(all_lines) - 1) :
                  ~(all_lines[i] = <<>> /\ all_lines[i + 1] = <<>>)

\* the indices i of the lines of t such that line i is blank and the lines
\* before it and after it are blocks without a blank line
SingleBlankAt(t) ==
    LET ls == SplitOn(t, NL)
    IN  {i \in 2..(Len(ls) - 1) :
            /\ Strip(ls[i]) = <<>>
            /\ \A j \in 1..Len(ls) : j # i => Strip(ls[j]) # <<>>}

\* t with k more blank lines after its line i
WithMoreBlanks(t, i, k) ==
    LET ls == SplitOn(t, NL)
        starts == Len(Concat([j \in 1..i |-> Append(ls[j], NL)]))
    IN  (SubSeq(t, 1, starts) \o Rep(NL, k)) \o SubSeq(t, starts + 1, Len(t))

MoreBlanks == 1..2

\* the lines split_paragraph_to_lines returns for paragraph p and the
\* arguments of the call
LinesOfParagraph(p) ==
    SplitParagraphToLines(p, args.font_size, args.page_width, args.margin,
                          jiebaWordLen).lines

C7_EstimateAtLeastOne ==
    op = "estimate_page_count" => (raised = "none" /\ page_count >= 1)

\* the least n with n * d >= t
Ceil(t, d) == CHOOSE n \in 0..t : n * d >= t /\ \A k \in 0..(n - 1) : k * d < t

\* floor((page_height - 2 * margin) / (font_size + line_spacing))
LinesFitting == (args.page_height - 2 * args.margin) \div (args.font_size + args.line_spacing)

\* add_line_breaks_for_handwriting returns a line list for the arguments of
\* the call (it raises for font size 0 and a text that is not blank)
FlattenedListExists ==
    AddLineBreaks(IF op = "process_for_handwriting" THEN CleanText(text) ELSE text,
                  args.font_size, args.page_width, args.margin,
                  args.line_spacing, jiebaWordLen).raised = "none"

\* total_lines of add_line_breaks_for_handwriting for the arguments of the call
FlattenedLineCount ==
    IF op = "process_for_handwriting" THEN total_lines
    ELSE Len(AddLineBreaks(text, args.font_size, args.page_width, args.margin,
                           args.line_spacing, jiebaWordLen).lines)

C9_EstimateChangesNothing ==
    [][op' \in {"estimate_page_count", "process_for_handwriting"}
          => UNCHANGED <<config, processor, jiebaWordLen, text>>]_vars

\* process_for_handwriting has returned a page count for a configuration that
\* is not the default one
C9_Witness ==
    /\ Returned("process_for_handwriting")
    /\ config.page_size # "A5 landscape"
    /\ page_count >= 1

\* C10: two render invocations on the same text and style with the same seed
\* produce pixel-identical output
C10_SameSeedSameImage ==
    \A i, j \in 1..Len(renders) :
        (renders[i].seed = renders[j].seed /\ renders[i].seed # NoSeed)
            => /\ Len(renders[i].images) = Len(renders[j].images)
               /\ \A k \in 1..Len(renders[i].images) :
                      Pixels(renders[i].images[k]) = Pixels(renders[j].images[k])

\* the stages of apply_effects in the order of lines 65-69
StageOrder == <<"ink_spread", "noise", "blur", "paper_texture", "brightness_contrast">>

EffectsReturned == effects.pc = "returned"

\* C11: apply_effects with the disabled preset, the effect style "none",
\* returns the input canvas and runs no stage
C11_DisabledPresetReturnsInput ==
    (EffectsReturned /\ effects.style = "none")
        => /\ effects.result = effects.image
           /\ effects.stages = <<>>

\* apply_effects has returned for the style "none" and an image with text on it
C11_Witness ==
    /\ EffectsReturned
    /\ effects.style = "none"
    /\ effects.image = TextImage

C13_FailedStageIsSkipped ==
    (EffectsReturned /\ EffectConfig(effects.style).enabled)
        => /\ effects.result # NoImage
           /\ \A i \in 1..Len(effects.stages) :
                  effects.stages[i].failed
                      => effects.stages[i].output = effects.stages[i].input

\* the invariant of a style: no negative size, spacing or margin, the page
\* wider and higher than twice the margin
ValidStyle(g) ==
    /\ g.font_size >= 0
    /\ g.line_spacing.num >= 0
    /\ g.margin >= 0
    /\ a5_width > 2 * g.margin
    /\ a5_height > 2 * g.margin

\* the same for a HandwritingConfig
ValidHandwritingConfig(c) ==
    /\ \A k \in DOMAIN c : c[k] >= 0
    /\ c.page_width > c.left_margin + c.right_margin
    /\ c.page_height > c.top_margin + c.bottom_margin

\* C14: a render call with an invalid style configuration, given at
\* construction or through update_config or custom_config, produces no image
C14_InvalidStyleIsRejected ==
    /\ \A i \in 1..Len(renders) :
           ~ValidStyle(renders[i].style) => renders[i].images = <<>>
    /\ (converted.called /\ ~ValidHandwritingConfig(converted.config))
           => (converted.saved = 0 /\ ~converted.returned)

\* the font the fallback order gives: the configured identifier if it can be
\* resolved, else the first resolvable known name, else the built-in font
FontByFallbackOrder(g, installed) ==
    IF g.config.font_family \in installed THEN g.config.font_family
    ELSE GetFont(installed)

\* C15: font resolution tries the configured font identifier first, then the
\* known font names in order, and gives the built-in default font when none
\* can be resolved
C15_ConfiguredFontTriedFirst ==
    \A i \in 1..Len(renders) :
        renders[i].font = FontByFallbackOrder(renders[i].style, fonts)

\* C16: for an empty or whitespace-only text split_text_to_paragraphs returns
\* no paragraph, add_line_breaks_for_handwriting no line and a total of 0,
\* and estimate_page_count returns 1; none of them raises
C16_EmptyInputIsNotAnError ==
    (NonWs(text) = <<>> /\ op # "none")
        => /\ raised = "none"
           /\ op = "split_text_to_paragraphs" => paragraphs = <<>>
           /\ op = "add_line_breaks_for_handwriting"
                  => (all_lines = <<>> /\ total_lines = 0)
           /\ op = "estimate_page_count" => page_count = 1

\* the lines a page of style g holds
MaxLinesOnPage(g) ==
    ((a5_height - 2 * g.margin) * g.line_spacing.den)
        \div (FontHeight(g.font_size) * g.line_spacing.num)

\* C17: no page image receives more lines than fit on a page, and every line
\* is drawn between the top margin and the page height minus the bottom margin
C17_LinesWithinPageMargins ==
    \A i \in 1..Len(renders) : \A k \in 1..Len(renders[i].images) :
        LET g == renders[i].style
            image == renders[i].images[k]
        IN  ValidStyle(g)
                => /\ Len(image) <= Max2(1, MaxLinesOnPage(g))
                   /\ \A j \in 1..Len(image) :
                          /\ image[j].y >= g.margin * g.line_spacing.den
                          /\ image[j].y + FontHeight(g.font_size) * g.line_spacing.den
                                 <= (a5_height - g.margin) * g.line_spacing.den

Abs(n) == IF n < 0 THEN -n ELSE n

\* C18: the X start of every drawn line differs from the left margin by at
\* most the configured random_offset_x, its Y position from the nominal one
\* by at most the configured random_offset_y
C18_OffsetsWithinConfiguredRange ==
    \A i \in 1..Len(renders) : \A k \in 1..Len(renders[i].images) :
        LET g == renders[i].style
            image == renders[i].images[k]
        IN  \A j \in 1..Len(image) :
                /\ Abs(image[j].x - g.margin) <= g.config.random_offset_x
                /\ Abs(image[j].y - image[j].nominal_y)
                       <= g.config.random_offset_y * g.line_spacing.den

\* C19: for a preset whose rotation is not zero every line is drawn rotated,
\* by an angle within that rotation; for any other preset no line is rotated
C19_RotationFollowsPreset ==
    \A i \in 1..Len(renders) : \A k \in 1..Len(renders[i].images) :
        LET preset == EffectConfig(renders[i].style.effect_style)
            image == renders[i].images[k]
        IN  \A j \in 1..Len(image) :
                IF preset.enabled /\ preset.rotation > 0
                THEN /\ image[j].rotated
                     /\ Abs(image[j].angle) * 100 <= preset.rotation * 16
                ELSE ~image[j].rotated

\* the characters count_characters treats as punctuation
PunctuationChars == processor.punctuation_pattern \cup processor.en_punctuation

\* C20: count_characters puts every character into at most one category:
\* total is the length of the counted text, the four category counts add up to
\* at most total, without punctuation the punctuation count is 0 and total
\* leaves out every punctuation character, and the empty text gives all zeros
C20_CountsAreDisjoint ==
    Returned("count_characters") =>
        LET c == counts.returned
            n == Cardinality({i \in 1..Len(text) : text[i] \in PunctuationChars})
        IN /\ c.total = IF counts.include_punctuation THEN Len(text) ELSE Len(text) - n
           /\ c.chinese + c.english + c.digits + c.punctuation <= c.total
           /\ c.chinese >= 0 /\ c.english >= 0 /\ c.digits >= 0 /\ c.punctuation >= 0
           /\ counts.include_punctuation => c.punctuation = n
           /\ ~counts.include_punctuation => c.punctuation = 0
           /\ text = <<>> => c = ZeroCounts

\* a text with a Chinese character, a full-width and an ASCII punctuation
\* character has been counted without punctuation
C20_Witness ==
    /\ Returned("count_characters")
    /\ ~counts.include_punctuation
    /\ \E i, j, k \in 1..Len(text) :
           text[i] = CH /\ text[j] \in processor.en_punctuation /\ text[k] = PU
    /\ counts.returned.total = 1
    /\ counts.returned.chinese = 1

\* ------------------------------------------------------- GUI, streamed request
\* send_ai_request(): the output is cleared, the buttons are switched, the
\* stop flag is lowered and the run_stream thread is started
SendAiRequest ==
    /\ gui.send_button = "normal"
    /\ gui.request < MaxRequests
    /\ gui' = [gui EXCEPT !.ai_response = <<>>,
                          !.send_button = "disabled", !.stop_button = "normal",
                          !.stop_generation = FALSE,
                          !.request = @ + 1,
                          !.threads[gui.request + 1] = [pc |-> "stream", chunks |-> 0]]
    /\ UNCHANGED exceptGui

\* run_stream: the generator stream_chat_with_ollama yields the next chunk,
\* or ends, or raises
StreamNext ==
    /\ \E r \in 1..MaxRequests :
           /\ gui.threads[r].pc = "stream"
           /\ \E yields \in {gui.threads[r].chunks < MaxChunks, FALSE} :
                  gui' = [gui EXCEPT !.threads[r].pc = IF yields THEN "check" ELSE "finally"]
    /\ UNCHANGED exceptGui

\* run_stream: if self.stop_generation: break
CheckStop ==
    /\ \E r \in 1..MaxRequests :
           /\ gui.threads[r].pc = "check"
           /\ gui' = [gui EXCEPT !.threads[r].pc = IF gui.stop_generation THEN "finally"
                                                  ELSE "after"]
    /\ UNCHANGED exceptGui

\* run_stream: self.root.after(0, update_ui) with the chunk bound to it
QueueUpdate ==
    /\ \E r \in 1..MaxRequests :
           /\ gui.threads[r].pc = "after"
           /\ gui' = [gui EXCEPT !.threads[r] = [pc |-> "stream", chunks |-> @.chunks + 1],
                                 !.queue = Append(@, [callback |-> "update_ui", request |-> r,
                                                      content |-> gui.threads[r].chunks + 1])]
    /\ UNCHANGED exceptGui

\* run_stream: the finally clause queues the two button callbacks, and the
\* thread ends
QueueButtons ==
    /\ \E r \in 1..MaxRequests :
           /\ gui.threads[r].pc = "finally"
           /\ gui' = [gui EXCEPT !.threads[r].pc = "ended",
                                 !.queue = (@ \o <<[callback |-> "send_button", request |-> r,
                                                    content |-> 0]>>)
                                           \o <<[callback |-> "stop_button", request |-> r,
                                                 content |-> 0]>>]
    /\ UNCHANGED exceptGui

\* the main loop runs the callback queued first: update_ui appends the chunk
\* to ai_output and ai_response, the others switch a button
RunCallback ==
    /\ gui.queue # <<>>
    /\ \E c \in {Head(gui.queue)} :
           gui' = [gui EXCEPT
                      !.queue = Tail(@),
                      !.ai_response =
                          IF c.callback = "update_ui"
                          THEN Append(@, [request |-> c.request, content |-> c.content,
                                          after_stop |-> c.request \in gui.stopped])
                          ELSE @,
                      !.send_button = IF c.callback = "send_button" THEN "normal" ELSE @,
                      !.stop_button = IF c.callback = "stop_button" THEN "disabled" ELSE @]
    /\ UNCHANGED exceptGui

\* stop_ai_generation(), for the request sent last
StopAiGeneration ==
    /\ gui.stop_button = "normal"
    /\ gui' = [gui EXCEPT !.stop_generation = TRUE,
                          !.send_button = "normal", !.stop_button = "disabled",
                          !.stopped = @ \cup {gui.request}]
    /\ UNCHANGED exceptGui

\* the state after HandwritingApp(root)
InitGui ==
    /\ text = <<>>
    /\ jiebaWordLen = 1
    /\ config \in {c \in Configs : c.font_size = 16}
    /\ generator = DefaultGenerator
    /\ rng = 0
    /\ renders = <<>>
    /\ converted = NoConversion
    /\ effects = NoEffects
    /\ fonts = {}
    /\ updates = 0
    /\ processor = NewTextProcessor
    /\ op = "none"
    /\ args = NoArgs
    /\ paragraphs = <<>>
    /\ all_lines = <<>>
    /\ total_lines = 0
    /\ page_count = 0
    /\ raised = "none"
    /\ counts = NoCounts
    /\ canvas = NoCanvas
    /\ manager = NoManager
    /\ client = NewAIClient
    /\ prompts = NewPromptTemplates
    /\ gui = NewApp

NextGui ==
    \/ SendAiRequest
    \/ StreamNext
    \/ CheckStop
    \/ QueueUpdate
    \/ QueueButtons
    \/ RunCallback
    \/ StopAiGeneration

SpecGui == InitGui /\ [][NextGui]_vars

\* ---------------------------------------------------------- PromptTemplates
\* the call has returned
Called(p, op_name, name, returned) ==
    [p EXCEPT !.last = [op |-> op_name, name |-> name, returned |-> returned]]

\* templates.remove(name): the list without the first occurrence of name
Remove(names, name) ==
    IF \E i \in 1..Len(names) : names[i] = name
    THEN Let(CHOOSE i \in 1..Len(names) :
                 names[i] = name /\ \A j \in 1..(i - 1) : names[j] # name,
             LAMBDA i : SubSeq(names, 1, i - 1) \o SubSeq(names, i + 1, Len(names)))
    ELSE names

\* add_template(name, description, template)
AddTemplate(p, name, description, template) ==
    IF name \in DOMAIN p.templates THEN Called(p, "add_template", name, FALSE)
    ELSE Called([p EXCEPT
                    !.templates = [n \in DOMAIN p.templates \cup {name} |->
                                      IF n = name
                                      THEN [description |-> description, template |-> template]
                                      ELSE p.templates[n]],
                    !.categories = [c \in DOMAIN p.categories \cup {"custom"} |->
                                       IF c # "custom" THEN p.categories[c]
                                       ELSE Let(IF "custom" \in DOMAIN p.categories
                                                THEN p.categories["custom"] ELSE <<>>,
                                                LAMBDA custom :
                                                    IF \E i \in 1..Len(custom) : custom[i] = name
                                                    THEN custom ELSE Append(custom, name))]],
                "add_template", name, TRUE)

\* update_template(name, description, template), "None" for an argument left out
UpdateTemplate(p, name, description, template) ==
    IF name \notin DOMAIN p.templates THEN Called(p, "update_template", name, FALSE)
    ELSE Called([p EXCEPT
                    !.templates[name].description = IF description # "None" THEN description
                                                    ELSE @,
                    !.templates[name].template = IF template # "None" THEN template ELSE @],
                "update_template", name, TRUE)

DeleteTemplate_anyName(p, name) ==
    IF name \notin DOMAIN p.templates THEN Called(p, "delete_template", name, FALSE)
    ELSE Called([p EXCEPT
                    !.categories = [c \in DOMAIN p.categories |-> Remove(p.categories[c], name)],
                    !.templates = [n \in DOMAIN p.templates \ {name} |-> p.templates[n]]],
                "delete_template", name, TRUE)

\* delete_template(name)
DeleteTemplate(p, name) ==
    IF name \notin DOMAIN p.templates THEN Called(p, "delete_template", name, FALSE)
    ELSE IF name \in predefined_templates THEN Called(p, "delete_template", name, FALSE)
    ELSE Called([p EXCEPT
                    !.categories = [c \in DOMAIN p.categories |-> Remove(p.categories[c], name)],
                    !.templates = [n \in DOMAIN p.templates \ {name} |-> p.templates[n]]],
                "delete_template", name, TRUE)

\* the names the calls are made with: two predefined templates and two others
TemplateNames == {"diary", "test_notes", "mine", "yours"}

CallAddTemplate ==
    /\ \E name \in TemplateNames : \E description \in {"d1"} : \E template \in {"t1", "t2"} :
           prompts' = AddTemplate(prompts, name, description, template)
    /\ UNCHANGED exceptPrompts

CallUpdateTemplate ==
    /\ \E name \in TemplateNames : \E description \in {"None", "d2"} :
       \E template \in {"None", "t2"} :
           prompts' = UpdateTemplate(prompts, name, description, template)
    /\ UNCHANGED exceptPrompts

CallDeleteTemplate ==
    /\ \E name \in TemplateNames : prompts' = DeleteTemplate(prompts, name)
    /\ UNCHANGED exceptPrompts

\* the state after PromptTemplates()
InitPrompts ==
    /\ text = <<>>
    /\ jiebaWordLen = 1
    /\ config \in {c \in Configs : c.font_size = 16}
    /\ generator = DefaultGenerator
    /\ rng = 0
    /\ renders = <<>>
    /\ converted = NoConversion
    /\ effects = NoEffects
    /\ fonts = {}
    /\ updates = 0
    /\ processor = NewTextProcessor
    /\ op = "none"
    /\ args = NoArgs
    /\ paragraphs = <<>>
    /\ all_lines = <<>>
    /\ total_lines = 0
    /\ page_count = 0
    /\ raised = "none"
    /\ counts = NoCounts
    /\ canvas = NoCanvas
    /\ manager = NoManager
    /\ client = NewAIClient
    /\ prompts = NewPromptTemplates
    /\ gui = NewApp

NextPrompts ==
    \/ CallAddTemplate
    \/ CallUpdateTemplate
    \/ CallDeleteTemplate

SpecPrompts == InitPrompts /\ [][NextPrompts]_vars

\* ----------------------------------------------------------------- AIClient
\* what _api_call raises: the errors of the openai library it re-raises, the
\* ValueError it raises for an invalid key, and any other exception
ApiErrors == {"RateLimitError", "APIError", "ValueError", "Exception"}

RECURSIVE Pow2(_)
Pow2(n) == IF n = 0 THEN 1 ELSE 2 * Pow2(n - 1)

\* generate_content(prompt) up to the first pass of the loop of
\* _retry_with_backoff(_api_call)
CallGenerateContent ==
    /\ client.pc = "idle"
    /\ client' = [NewAIClient EXCEPT !.pc = "attempt"]
    /\ UNCHANGED exceptClient

\* CallFunc waiting after every failed attempt, the last one too
CallFunc_sleepsAfterLast ==
    /\ client.pc = "attempt"
    /\ client.attempt < client.max_retries
    /\ \E outcome \in {"ok"} \cup ApiErrors :
           client' = IF outcome = "ok"
                     THEN [client EXCEPT !.pc = "returned", !.result = "content",
                                         !.outcomes = Append(@, outcome)]
                     ELSE [client EXCEPT !.pc = "sleep",
                                         !.last_error = outcome,
                                         !.outcomes = Append(@, outcome)]
    /\ UNCHANGED exceptClient

\* one pass of the loop up to the sleep: func is called; its result is
\* returned, or its exception is kept and, unless this was the last
\* attempt, the delay follows
CallFunc ==
    /\ client.pc = "attempt"
    /\ client.attempt < client.max_retries
    /\ \E outcome \in {"ok"} \cup ApiErrors :
           client' = IF outcome = "ok"
                     THEN [client EXCEPT !.pc = "returned", !.result = "content",
                                         !.outcomes = Append(@, outcome)]
                     ELSE [client EXCEPT !.pc = IF client.attempt < client.max_retries - 1
                                                THEN "sleep" ELSE "attempt",
                                         !.attempt = IF client.attempt < client.max_retries - 1
                                                     THEN @ ELSE @ + 1,
                                         !.last_error = outcome,
                                         !.outcomes = Append(@, outcome)]
    /\ UNCHANGED exceptClient

\* time.sleep(self.retry_delay * (2 ** attempt)) and the next pass
Sleep ==
    /\ client.pc = "sleep"
    /\ client' = [client EXCEPT !.pc = "attempt", !.attempt = @ + 1,
                                !.sleeps = Append(@, client.retry_delay * Pow2(client.attempt))]
    /\ UNCHANGED exceptClient

\* the loop is over: raise last_error
RaiseLastError ==
    /\ client.pc = "attempt"
    /\ client.attempt >= client.max_retries
    /\ client' = [client EXCEPT !.pc = "raised", !.error = client.last_error]
    /\ UNCHANGED exceptClient

\* generate_content returns what _retry_with_backoff returned, None when it raised
ReturnContent ==
    /\ client.pc \in {"returned", "raised"}
    /\ client' = [client EXCEPT !.pc = "done",
                                !.content = IF client.pc = "returned" THEN client.result
                                            ELSE "None"]
    /\ UNCHANGED exceptClient

\* the caller has taken the content
DiscardContent ==
    /\ client.pc = "done"
    /\ client' = NewAIClient
    /\ UNCHANGED exceptClient

\* the state after OpenAIClient(config)
InitClient ==
    /\ text = <<>>
    /\ jiebaWordLen = 1
    /\ config \in {c \in Configs : c.font_size = 16}
    /\ generator = DefaultGenerator
    /\ rng = 0
    /\ renders = <<>>
    /\ converted = NoConversion
    /\ effects = NoEffects
    /\ fonts = {}
    /\ updates = 0
    /\ processor = NewTextProcessor
    /\ op = "none"
    /\ args = NoArgs
    /\ paragraphs = <<>>
    /\ all_lines = <<>>
    /\ total_lines = 0
    /\ page_count = 0
    /\ raised = "none"
    /\ counts = NoCounts
    /\ canvas = NoCanvas
    /\ manager = NoManager
    /\ client = NewAIClient
    /\ prompts = NewPromptTemplates
    /\ gui = NewApp

NextClient ==
    \/ CallGenerateContent
    \/ CallFunc
    \/ Sleep
    \/ RaiseLastError
    \/ ReturnContent
    \/ DiscardContent

SpecClient == InitClient /\ [][NextClient]_vars

\* ------------------------------------------------------------ ConfigManager
\* the limit of add_template_history
history_limit == 50

\* the history the configuration holds
TemplateHistory(m) == m.lists[m.config.template_history]

\* a history as a file holds it: n entries, the newest first
StoredHistory(n) == [i \in 1..n |-> [id |-> 1 - i, name |-> "stored"]]

\* self.config = self.default_config.copy(): a shallow copy, the history is
\* the list object of default_config
DefaultCopy(m) == [m EXCEPT !.config = default_config]

Save_keepsApiKey(m) ==
    [m EXCEPT !.file = [format |-> "flat", api_key |-> m.config.api_key,
                        model |-> m.config.model,
                        template_history |-> TemplateHistory(m), writer |-> "save"]]

\* save(): the configuration with api_key "" is written to the file
Save(m) ==
    [m EXCEPT !.file = [format |-> "flat", api_key |-> "", model |-> m.config.model,
                        template_history |-> TemplateHistory(m), writer |-> "save"]]

\* load(): a file in the flat format updates the configuration, one in the
\* old format is migrated key by key, a file that does not parse and a
\* missing file give the defaults, and the missing file is then written
Load(m) ==
    IF m.file.format \in {"flat", "old"}
    THEN [m EXCEPT !.config = [api_key |-> m.file.api_key, model |-> m.file.model,
                               template_history |-> "own"],
                   !.lists.own = m.file.template_history]
    ELSE IF m.file.format = "absent" THEN Save(DefaultCopy(m))
    ELSE DefaultCopy(m)

\* load_env(): load_dotenv does not override a variable the process has
LoadEnv(m) ==
    Let(IF m.environ = "" THEN m.env_file ELSE m.environ,
        LAMBDA api_key :
            [m EXCEPT !.environ = api_key,
                      !.config.api_key = IF api_key # "" THEN api_key ELSE @])

\* save_api_key(api_key)
SaveApiKey(m, api_key) == [m EXCEPT !.env_file = api_key, !.config.api_key = api_key]

\* update_ai_settings(ai_settings) and the other update_*_settings: a key of
\* the settings is set when the configuration has it
UpdateSettings(m, settings) ==
    [m EXCEPT !.config = [k \in DOMAIN m.config |->
                             IF k \in DOMAIN settings THEN settings[k] ELSE m.config[k]]]

\* set_all(config): a copy of the dict, then _validate_and_merge_defaults
\* puts the default value (for the history: the default's list) under every
\* missing key
SetAll(m, c) ==
    [m EXCEPT !.config = [k \in DOMAIN default_config |->
                             IF k \notin DOMAIN c THEN default_config[k]
                             ELSE IF k = "template_history" THEN "own" ELSE c[k]],
              !.lists.own = IF "template_history" \in DOMAIN c THEN c.template_history
                            ELSE @]

AddTemplateHistory_unbounded(m, template_name) ==
    Let(<<[id |-> m.next_id, name |-> template_name]>> \o TemplateHistory(m),
        LAMBDA inserted :
            Save([m EXCEPT !.lists[m.config.template_history] = inserted,
                           !.next_id = @ + 1]))

\* add_template_history(template_name, prompt): insert(0, template) on the
\* list the configuration holds, a new list of the first 50 when it has
\* grown beyond, then save()
AddTemplateHistory(m, template_name) ==
    Let(<<[id |-> m.next_id, name |-> template_name]>> \o TemplateHistory(m),
        LAMBDA inserted :
            Save([m EXCEPT !.lists[m.config.template_history] = inserted,
                           !.lists.own = IF Len(inserted) > history_limit
                                         THEN SubSeq(inserted, 1, history_limit)
                                         ELSE IF m.config.template_history = "own"
                                              THEN inserted ELSE @,
                           !.config.template_history =
                               IF Len(inserted) > history_limit THEN "own" ELSE @,
                           !.next_id = @ + 1]))

\* reset_to_defaults()
ResetToDefaults(m) == DefaultCopy(m)

\* the operation has returned: its name, and what the claims keep of the
\* calls so far (whether only add_template_history was called since the
\* construction, and the key load_env or save_api_key set with only save and
\* load calls since)
Done(m, name, only_adds, held_key) ==
    [m EXCEPT !.pc = "ready", !.last = name, !.only_adds = only_adds,
              !.held_key = held_key]

ApiKeys == {"", "sk-new"}

\* the files a ConfigManager can find: none, one that save wrote (without
\* history, with a full one), one edited by hand, one in the old nested
\* format with the key in it, and one that is not JSON
ConfigFiles ==
    {NoFile,
     [format |-> "flat", api_key |-> "", model |-> "gpt-4",
      template_history |-> StoredHistory(0), writer |-> "user"],
     [format |-> "flat", api_key |-> "", model |-> "gpt-4",
      template_history |-> StoredHistory(history_limit), writer |-> "user"],
     [format |-> "flat", api_key |-> "sk-file", model |-> "gpt-4",
      template_history |-> StoredHistory(history_limit + 2), writer |-> "user"],
     [format |-> "old", api_key |-> "sk-old", model |-> "gpt-4",
      template_history |-> StoredHistory(1), writer |-> "user"],
     [NoFile EXCEPT !.format = "corrupt"]}

\* ConfigManager(): the defaults are copied, then load() and load_env()
Construct ==
    /\ manager.pc = "new"
    /\ \E m \in {LoadEnv(Load(DefaultCopy(manager)))} :
           manager' = Done(m, "__init__", TRUE, m.environ)
    /\ UNCHANGED exceptManager

CallLoad ==
    /\ manager.pc = "ready"
    /\ manager' = Done(Load(manager), "load", FALSE, manager.held_key)
    /\ UNCHANGED exceptManager

CallSave ==
    /\ manager.pc = "ready"
    /\ manager' = Done(Save(manager), "save", FALSE, manager.held_key)
    /\ UNCHANGED exceptManager

CallLoadEnv ==
    /\ manager.pc = "ready"
    /\ \E m \in {LoadEnv(manager)} :
           manager' = Done(m, "load_env", FALSE,
                           IF m.environ # "" THEN m.environ ELSE "")
    /\ UNCHANGED exceptManager

CallSaveApiKey ==
    /\ manager.pc = "ready"
    /\ \E api_key \in ApiKeys :
           manager' = Done(SaveApiKey(manager, api_key), "save_api_key", FALSE, api_key)
    /\ UNCHANGED exceptManager

\* set(key, value) for a key without a dot, and the update_*_settings calls
CallUpdateSettings ==
    /\ manager.pc = "ready"
    /\ \E settings \in {[api_key |-> "sk-new"], [api_key |-> ""], [model |-> "gpt-4"],
                        [model |-> "gpt-4", local_mode |-> "true"]} :
           manager' = Done(UpdateSettings(manager, settings), "update_settings", FALSE, "")
    /\ UNCHANGED exceptManager

CallSetAll ==
    /\ manager.pc = "ready"
    /\ \E c \in {[model |-> "gpt-4"],
                 [api_key |-> "sk-new", model |-> "gpt-4",
                  template_history |-> StoredHistory(1)]} :
           manager' = Done(SetAll(manager, c), "set_all", FALSE, "")
    /\ UNCHANGED exceptManager

CallAddTemplateHistory ==
    /\ manager.pc = "ready"
    /\ manager.next_id <= MaxAdds
    /\ \E m \in {AddTemplateHistory(manager, "letter")} :
           manager' = Done(m, "add_template_history", manager.only_adds, "")
    /\ UNCHANGED exceptManager

CallResetToDefaults ==
    /\ manager.pc = "ready"
    /\ manager' = Done(ResetToDefaults(manager), "reset_to_defaults", FALSE, "")
    /\ UNCHANGED exceptManager

\* before ConfigManager() is called: the files and the environment it will find
InitConfig ==
    /\ text = <<>>
    /\ jiebaWordLen = 1
    /\ config \in {c \in Configs : c.font_size = 16}
    /\ generator = DefaultGenerator
    /\ rng = 0
    /\ renders = <<>>
    /\ converted = NoConversion
    /\ effects = NoEffects
    /\ fonts = {}
    /\ updates = 0
    /\ processor = NewTextProcessor
    /\ op = "none"
    /\ args = NoArgs
    /\ paragraphs = <<>>
    /\ all_lines = <<>>
    /\ total_lines = 0
    /\ page_count = 0
    /\ raised = "none"
    /\ counts = NoCounts
    /\ canvas = NoCanvas
    /\ client = NewAIClient
    /\ prompts = NewPromptTemplates
    /\ gui = NewApp
    /\ \E file \in ConfigFiles : \E env_file, environ \in {"", "sk-env"} :
           manager = [NoManager EXCEPT !.file = file, !.env_file = env_file,
                                       !.environ = environ]

NextConfig ==
    \/ Construct
    \/ CallLoad
    \/ CallSave
    \/ CallLoadEnv
    \/ CallSaveApiKey
    \/ CallUpdateSettings
    \/ CallSetAll
    \/ CallAddTemplateHistory
    \/ CallResetToDefaults

SpecConfig == InitConfig /\ [][NextConfig]_vars

\* a stage call on a pixel image has returned an image
CanvasReturned(name) ==
    canvas.op = name /\ canvas.pc = "returned" /\ canvas.result # "raised"

SameColour(p, q) == p.r = q.r /\ p.g = q.g /\ p.b = q.b

IsDark(p) == Luminance(p) < threshold

\* the blur radius _apply_ink_spread uses for the intensity
InkRadius(intensity) == Max2(1, TruncDiv(intensity * 3, 100))

\* C21: the ink-spread stage adds ink only near dark pixels: a pixel with no
\* dark pixel within the blur radius keeps its input colour (so a canvas
\* without dark pixels comes out unchanged), and dark pixels stay dark
C21_InkOnlyNearDarkPixels ==
    CanvasReturned("ink_spread") =>
        \A i \in 1..Len(canvas.input) :
            /\ (\A j \in 1..Len(canvas.input) :
                    (j >= i - InkRadius(canvas.intensity)
                     /\ j <= i + InkRadius(canvas.intensity))
                        => ~IsDark(canvas.input[j]))
                   => SameColour(canvas.pixels[i], canvas.input[i])
            /\ IsDark(canvas.input[i]) => IsDark(canvas.pixels[i])

Abs255(a, b) == IF a >= b THEN a - b ELSE b - a

\* every colour channel of the pixel is a channel value and at most 30 from
\* the channel of the input pixel
NoiseBounded(p, q) ==
    /\ p.r \in 0..255 /\ p.g \in 0..255 /\ p.b \in 0..255
    /\ Abs255(p.r, q.r) <= 30 /\ Abs255(p.g, q.g) <= 30 /\ Abs255(p.b, q.b) <= 30

\* C22 as stated: after the noise stage every colour channel is within 0..255
\* and at most 30 from its input value, the alpha channel is unchanged, and
\* with intensity <= 0 the image is returned unchanged
C22_NoiseBoundedAlphaUnchanged ==
    CanvasReturned("noise") =>
        /\ \A i \in 1..Len(canvas.input) :
               /\ NoiseBounded(canvas.pixels[i], canvas.input[i])
               /\ canvas.pixels[i].a = canvas.input[i].a
        /\ Len(canvas.pixels) = Len(canvas.input)
        /\ canvas.intensity <= 0 =>
               canvas.result = "input" /\ canvas.pixels = canvas.input

\* C22, amended: the colour channels are bounded as stated all through the
\* stage and the pixel loop never changes alpha, but the image returned for
\* an intensity > 0 is an RGB image: the alpha channel of an RGBA input is
\* dropped, only an input without alpha channel keeps what it had
C22_NoiseBoundedAlphaDropped ==
    canvas.op = "noise" =>
        /\ Len(canvas.pixels) = Len(canvas.input)
        /\ \A i \in 1..Len(canvas.input) :
               /\ NoiseBounded(canvas.pixels[i], canvas.input[i])
               /\ canvas.pc = "loop" => canvas.pixels[i].a = canvas.input[i].a
               /\ (canvas.pc = "returned" /\ canvas.mode = "RGB")
                      => canvas.pixels[i].a = canvas.input[i].a
        /\ (canvas.pc = "returned" /\ canvas.intensity > 0) => canvas.result_mode = "RGB"
        /\ (canvas.pc = "returned" /\ canvas.intensity <= 0) =>
               /\ canvas.result = "input"
               /\ canvas.pixels = canvas.input
               /\ canvas.result_mode = canvas.mode

\* the noise stage has returned an image in which a red pixel was hit by the
\* noise 30 (red clamped at 255) and a translucent pixel lost its alpha
C22_Witness ==
    /\ CanvasReturned("noise")
    /\ canvas.intensity > 0
    /\ \E i, j \in 1..Len(canvas.input) :
           /\ canvas.input[i] = Red
           /\ canvas.pixels[i] = Pixel(255, 30, 30, 255)
           /\ canvas.input[j] = Translucent
           /\ canvas.pixels[j].a = 255

\* C30: in create_handwriting_with_pen_pressure the intensity written for a
\* dark pixel is within 0..255, and every pixel that is not dark is white in
\* the result
C30_PenIntensityInRange ==
    canvas.op = "pen_pressure" =>
        /\ \A k \in 1..Len(canvas.fills) : canvas.fills[k].intensity \in 0..255
        /\ canvas.pc = "returned" =>
               \A i \in 1..Len(canvas.input) :
                   ~IsDark(canvas.input[i]) => canvas.pixels[i] = White

\* C23: reset_to_defaults restores the default configuration: after it every
\* key has its default value, in particular template_history is empty
C23_ResetRestoresDefaults ==
    manager.last = "reset_to_defaults" =>
        /\ manager.config.api_key = ""
        /\ manager.config.model = "gpt-3.5-turbo"
        /\ TemplateHistory(manager) = <<>>

C25_HistoryBoundedNewestFirst ==
    (manager.last = "add_template_history" /\ manager.only_adds) =>
        LET h == TemplateHistory(manager)
        IN /\ Len(h) >= 1 /\ Len(h) <= history_limit
           /\ h[1].id = manager.next_id - 1
           /\ \A i \in 2..Len(h) : h[i].id = h[i - 1].id - 1

\* two templates were added to a history of 50 entries
C25_Witness ==
    /\ manager.last = "add_template_history" /\ manager.only_adds
    /\ Len(TemplateHistory(manager)) = history_limit
    /\ TemplateHistory(manager)[1].id = 2
    /\ TemplateHistory(manager)[history_limit].name = "stored"

\* C29: a key that load_env or save_api_key has put into the configuration
\* is still its api_key after any later sequence of save and load calls
C29_ApiKeySurvivesReload ==
    manager.held_key # "" => manager.config.api_key = manager.held_key

\* the delays _retry_with_backoff waits between the attempts
Backoff == <<2, 4>>

\* C26: _retry_with_backoff calls the function at most 3 times and stops at
\* the first success, returning its result; it waits 2 and then 4 seconds
\* between consecutive attempts, never after the last one, and when every
\* attempt failed it raises the error of the last attempt
C26_RetryWithBackoff ==
    LET n == Len(client.outcomes)
    IN /\ n <= 3
       /\ \A i \in 1..(n - 1) : client.outcomes[i] # "ok"
       /\ Len(client.sleeps) <= 2
       /\ client.sleeps = SubSeq(Backoff, 1, Len(client.sleeps))
       /\ client.pc = "attempt" => Len(client.sleeps) = Min2(n, 2)
       /\ client.pc = "sleep" => (n < 3 /\ Len(client.sleeps) = n - 1)
       /\ client.pc = "returned" =>
              /\ client.outcomes[n] = "ok"
              /\ client.result = "content"
              /\ Len(client.sleeps) = n - 1
       /\ client.pc = "raised" =>
              /\ n = 3
              /\ client.outcomes[3] # "ok"
              /\ client.error = client.outcomes[3]
              /\ client.sleeps = Backoff

\* three attempts failed with different errors and the last error was raised
C26_Witness ==
    /\ client.pc = "raised"
    /\ client.outcomes = <<"RateLimitError", "APIError", "Exception">>
    /\ client.sleeps = <<2, 4>>
    /\ client.error = "Exception"

RunningThreads == {r \in 1..MaxRequests : gui.threads[r].pc \notin {"none", "ended"}}

\* C28: once stop_ai_generation has been invoked for a request no further
\* chunk of that request is appended to ai_output and ai_response, and at
\* most one stream thread is appending at any time
C28_NoChunkAfterStop ==
    /\ \A i \in 1..Len(gui.ai_response) : ~gui.ai_response[i].after_stop
    /\ Cardinality(RunningThreads) <= 1

====
